---- MODULE Spec2Model ----
(***************************************************************************)
(* Model of the poker decision engine of sgmalik/poker-agent:              *)
(*   - OutsCalculator   (src/src/core/outs_calculator.py)                  *)
(*   - SpotAnalyzer     (src/src/core/spot_analyzer.py)                    *)
(*                                                                         *)
(* A treys card integer is modelled by the pair <<rank, suit>> that        *)
(* Card.get_rank_int / Card.get_suit_int read back from it: rank 0..12     *)
(* (0 = deuce, 12 = ace), suit one of the bit flags 1 (spades),            *)
(* 2 (hearts), 4 (diamonds), 8 (clubs).  Card.new is injective on the      *)
(* 52 rank/suit strings, so equality of treys integers is equality of      *)
(* pairs.                                                                  *)
(*                                                                         *)
(* Numbers the code keeps as floats are kept as exact integers:            *)
(* percentages in hundredths of a percent, chip amounts in hundredths of   *)
(* a chip, which is what round(x, 2) leaves of them.                       *)
(***************************************************************************)
EXTENDS Integers, Sequences, FiniteSets, TLC

VARIABLES hero_cards, board_cards, pot_size, bet_to_call, effective_stack,
          outs_result, analysis,
          villain_cards, iterations, simulation, equity_results,
          element, expansion,
          parse_input, parsed, tool_calls, quiz, database, chat

\* the state of EquityCalculator.calculate: the villain's cards, the
\* iteration count, the counters of the running simulation loop and the
\* results of the calls made so far
equity_vars == <<villain_cards, iterations, simulation, equity_results>>

\* the state of RangeParser.expand_notation: the element given and the
\* list of hands (or the error) it ended with
range_vars == <<element, expansion>>

\* the state of RangeParser.parse (the notation given and the calls made on
\* it), of the tool wrappers, of a QuizEngine, of the database service and
\* of the chat screen with its coach
later_vars == <<parse_input, parsed, tool_calls, quiz, database, chat>>

vars == <<hero_cards, board_cards, pot_size, bet_to_call, effective_stack,
          outs_result, analysis, equity_vars, range_vars, later_vars>>

\* no range is parsed, no tool is called, no quiz, database or chat is open
LaterIdle ==
    /\ parse_input = <<>>
    /\ parsed = <<>>
    /\ tool_calls = <<>>
    /\ quiz = <<>>
    /\ database = <<>>
    /\ chat = <<>>

\* no equity calculation and no range expansion is requested
CalculatorsIdle ==
    /\ villain_cards = <<>>
    /\ iterations = 0
    /\ simulation = <<>>
    /\ equity_results = <<>>
    /\ element = <<>>
    /\ expansion = <<>>

EquityIdle == CalculatorsIdle /\ LaterIdle

\* no cards are dealt and no spot is analysed
CardsIdle ==
    /\ hero_cards = <<>>
    /\ board_cards = <<>>
    /\ pot_size = <<>>
    /\ bet_to_call = <<>>
    /\ effective_stack = <<>>
    /\ outs_result = <<>>
    /\ analysis = <<>>

(***************************************************************************)
(* Bounds of the model.                                                    *)
(***************************************************************************)
\* number of cards of DeckOrder the hands and boards of SpecOuts are dealt from
DeckSize == 11
\* number of cards of DeckOrder the hands and boards of SpecSpot are dealt from
SpotDeckSize == 7
\* pot_size, bet_to_call and effective_stack range over 0..MaxChips (or are omitted)
MaxChips == 3

(***************************************************************************)
(* Generic helpers (Python list / set / Counter idioms).                   *)
(***************************************************************************)
SeqToSet(s) == {s[i] : i \in DOMAIN s}

\* Counter(s)[x]
Count(x, s) == Cardinality({i \in DOMAIN s : s[i] = x})

Max(S) == CHOOSE m \in S : \A x \in S : x <= m

Min(S) == CHOOSE m \in S : \A x \in S : m <= x

Abs(x) == IF x < 0 THEN 0 - x ELSE x

\* sorted(S, reverse=True)
RECURSIVE SortDesc(_)
SortDesc(S) == IF S = {} THEN <<>>
               ELSE LET m == Max(S) IN <<m>> \o SortDesc(S \ {m})

\* sorted(S)
RECURSIVE SortAsc(_)
SortAsc(S) == IF S = {} THEN <<>>
              ELSE LET m == Min(S) IN <<m>> \o SortAsc(S \ {m})

\* the keys of Counter(s), in insertion (first occurrence) order
RECURSIVE CounterKeys(_)
CounterKeys(s) ==
    IF s = <<>> THEN <<>>
    ELSE LET front == CounterKeys(SubSeq(s, 1, Len(s) - 1))
             last  == s[Len(s)]
         IN IF last \in SeqToSet(front) THEN front ELSE Append(front, last)

\* Python's None for an optional argument or result: the empty sequence;
\* a present value v is <<v>>
None == <<>>

Some(v) == <<v>>

(***************************************************************************)
(* Cards (treys.Card).                                                     *)
(***************************************************************************)
Ranks == 0..12

Suits == {1, 2, 4, 8}

FullDeck == Ranks \X Suits

get_rank_int(c) == c[1]

get_suit_int(c) == c[2]

\* suit_names of count_flush_outs
suit_names(suit_int) ==
    CASE suit_int = 1 -> "spades"
      [] suit_int = 2 -> "hearts"
      [] suit_int = 4 -> "diamonds"
      [] suit_int = 8 -> "clubs"
      [] OTHER -> "unknown"

\* rank_chars[rank] of _create_card_from_rank_suit: Python indexes the
\* 13-character string "23456789TJQKA" from the end for a negative index
rank_chars_index(rank) == IF rank < 0 THEN rank + 13 ELSE rank

\* OutsCalculator._create_card_from_rank_suit: Card.new(rank_char + suit_char)
\* (an unknown suit flag falls back to "s", spades)
create_card_from_rank_suit(rank, suit_int) ==
    <<rank_chars_index(rank), IF suit_int \in Suits THEN suit_int ELSE 1>>

(***************************************************************************)
(* OutsCalculator (src/src/core/outs_calculator.py).                       *)
(* A key that a returned dict does not carry is modelled by the value      *)
(* "none" (type, suit), 0 (suit_int) or <<>> (missing_ranks).              *)
(***************************************************************************)
\* the dict returned when no suit has 3 or 4 cards (line 192)
no_flush == [count |-> 0, cards_needed |-> 0, type |-> "none",
             suit |-> "none", suit_int |-> 0]

\* the dict of one loop iteration of count_flush_outs (lines 172-190)
flush_dict(suit_int, count) ==
    IF count = 4
    THEN [count |-> 9, cards_needed |-> 1, type |-> "flush_draw",
          suit |-> suit_names(suit_int), suit_int |-> suit_int]
    ELSE [count |-> 1, cards_needed |-> 2, type |-> "backdoor_flush",
          suit |-> suit_names(suit_int), suit_int |-> suit_int]

\* OutsCalculator.count_flush_outs: the loop over suit_counts.items() returns
\* at the first suit, in insertion order, that has 4 or 3 cards
count_flush_outs(hero_suits, board_suits) ==
    LET all_suits == hero_suits \o board_suits
        keys      == CounterKeys(all_suits)
        hits      == {i \in DOMAIN keys : Count(keys[i], all_suits) \in {3, 4}}
    IN IF hits = {} THEN no_flush
       ELSE LET suit_int == keys[Min(hits)]
            IN flush_dict(suit_int, Count(suit_int, all_suits))

\* treys rank -> poker rank (A = 14), line 219
poker_rank(r) == IF r = 12 THEN 14 ELSE r + 2

\* poker_ranks of count_straight_outs: the distinct ranks, high to low
poker_ranks_of(all_ranks) == SortDesc({poker_rank(r) : r \in SeqToSet(all_ranks)})

\* window of the loop "for high_rank in range(14, 4, -1)"
window_of(high_rank) == [i \in 1..5 |-> high_rank - (i - 1)]

wheel_window == <<5, 4, 3, 2, 14>>

\* [r for r in poker_ranks if r in window]
cards_in_window(poker_ranks, window) ==
    LET InWin(r) == r \in SeqToSet(window)
    IN SelectSeq(poker_ranks, InWin)

\* [r for r in window if r not in cards_we_have][0]
missing_in_window(window, cards_we_have) ==
    window[Min({i \in DOMAIN window : window[i] \notin SeqToSet(cards_we_have)})]

\* all(sorted_cards[i] - sorted_cards[i + 1] == 1 ...)
is_consecutive(sorted_cards) ==
    \A i \in 1..(Len(sorted_cards) - 1) : sorted_cards[i] - sorted_cards[i + 1] = 1

\* the draw type of a window that holds exactly 4 of its 5 ranks (lines 243-291)
draw_type(missing_rank, sorted_cards) ==
    IF is_consecutive(sorted_cards)
    THEN IF missing_rank = sorted_cards[1] + 1 THEN "top_end"
         ELSE IF missing_rank = sorted_cards[4] - 1 THEN "bottom_end"
         ELSE "gutshot"
    ELSE "gutshot"

\* the draws one regular window appends to possible_draws: none or one
window_draw(poker_ranks, high_rank) ==
    LET window        == window_of(high_rank)
        cards_we_have == cards_in_window(poker_ranks, window)
    IN IF Len(cards_we_have) = 4
       THEN LET missing_rank == missing_in_window(window, cards_we_have)
                sorted_cards == SortDesc(SeqToSet(cards_we_have))
            IN <<[missing_rank |-> missing_rank,
                  type |-> draw_type(missing_rank, sorted_cards),
                  window |-> window]>>
       ELSE <<>>

\* the loop over high_rank = 14, 13, ..., 5 (started at high_rank)
RECURSIVE regular_draws(_, _)
regular_draws(poker_ranks, high_rank) ==
    IF high_rank < 5 THEN <<>>
    ELSE window_draw(poker_ranks, high_rank) \o regular_draws(poker_ranks, high_rank - 1)

\* the wheel special case (lines 293-300)
wheel_draw(poker_ranks) ==
    LET wheel_cards == cards_in_window(poker_ranks, wheel_window)
    IN IF Len(wheel_cards) = 4
       THEN <<[missing_rank |-> missing_in_window(wheel_window, wheel_cards),
               type |-> "wheel", window |-> wheel_window]>>
       ELSE <<>>

possible_draws_of(poker_ranks) ==
    regular_draws(poker_ranks, 14) \o wheel_draw(poker_ranks)

\* mutant of adjacent_windows: windows two apart taken for adjacent
adjacent_windows_two_apart(draw1, draw2) == Abs(draw1.window[1] - draw2.window[1]) = 2

\* abs(draw1["window"][0] - draw2["window"][0]) == 1
adjacent_windows(draw1, draw2) == Abs(draw1.window[1] - draw2.window[1]) = 1

\* the (draw1, draw2) index pairs the OESD loops would return on
oesd_pairs(draws) ==
    {p \in (DOMAIN draws) \X (DOMAIN draws) :
        /\ draws[p[1]].type = "bottom_end"
        /\ draws[p[2]].type = "top_end"
        /\ adjacent_windows(draws[p[1]], draws[p[2]])}

no_straight == [count |-> 0, type |-> "none", missing_ranks |-> <<>>]

\* mutant of is_double_gutshot: three distinct missing ranks required
is_double_gutshot_three(unique_missing_ranks) == Cardinality(unique_missing_ranks) >= 3

\* len(unique_missing_ranks) >= 2
is_double_gutshot(unique_missing_ranks) == Cardinality(unique_missing_ranks) >= 2

\* lines 302-343: the overall draw type and outs, from a non-empty possible_draws
classify_draws(draws) ==
    LET unique_missing_ranks == {draws[i].missing_rank : i \in DOMAIN draws}
        pairs == oesd_pairs(draws)
    IN IF pairs # {}
       THEN LET i == Min({p[1] : p \in pairs})
                j == Min({p[2] : p \in {q \in pairs : q[1] = i}})
            IN [count |-> 8, type |-> "open_ended",
                missing_ranks |-> SortAsc({draws[i].missing_rank, draws[j].missing_rank})]
       ELSE IF is_double_gutshot(unique_missing_ranks)
       THEN [count |-> 8, type |-> "double_gutshot",
             missing_ranks |-> SortAsc(unique_missing_ranks)]
       ELSE [count |-> 4,
             type |-> IF draws[1].type # "wheel" THEN "gutshot" ELSE "wheel",
             missing_ranks |-> <<draws[1].missing_rank>>]

\* OutsCalculator.count_straight_outs
count_straight_outs(hero_ranks, board_ranks) ==
    LET poker_ranks == poker_ranks_of(hero_ranks \o board_ranks)
    IN IF Len(poker_ranks) < 4 THEN no_straight
       ELSE LET draws == possible_draws_of(poker_ranks)
            IN IF draws = <<>> THEN no_straight ELSE classify_draws(draws)

\* OutsCalculator.count_overcard_outs ("cards" is built from a Python set: a set)
count_overcard_outs(hero_ranks, board_ranks) ==
    IF board_ranks = <<>> THEN [count |-> 0, cards |-> {}]
    ELSE LET max_board_rank == Max(SeqToSet(board_ranks))
             overcards == {r \in SeqToSet(hero_ranks) : r > max_board_rank}
             paired_ranks == {r \in SeqToSet(hero_ranks) : Count(r, hero_ranks) = 2}
             unique_overcards == overcards \ paired_ranks
         IN IF overcards = {} THEN [count |-> 0, cards |-> {}]
            ELSE [count |-> Cardinality(unique_overcards) * 3, cards |-> unique_overcards]

\* mutant of unpaired_hero: every hole card outside a pair, trips included
unpaired_hero_not_in_pair(hero_ranks, all_ranks) ==
    {i \in DOMAIN hero_ranks : Count(hero_ranks[i], all_ranks) # 2}

\* unpaired_hero of count_pair_improvement_outs: the hole cards (positions)
\* whose rank occurs once among hand + board
unpaired_hero(hero_ranks, all_ranks) ==
    {i \in DOMAIN hero_ranks : Count(hero_ranks[i], all_ranks) = 1}

\* OutsCalculator.count_pair_improvement_outs
count_pair_improvement_outs(hero_ranks, board_ranks) ==
    LET all_ranks == hero_ranks \o board_ranks
        pairs == {r \in SeqToSet(all_ranks) : Count(r, all_ranks) = 2}
    IN IF pairs = {} THEN [count |-> 0, to_trips |-> 0, to_two_pair |-> 0]
       ELSE LET to_trips == 2
                to_two_pair == Cardinality(unpaired_hero(hero_ranks, all_ranks)) * 3
            IN [count |-> to_trips + to_two_pair, to_trips |-> to_trips,
                to_two_pair |-> to_two_pair]

\* poker rank -> treys rank, line 88 (a poker rank of 1 gives -1)
treys_rank(poker_rank_) == IF poker_rank_ = 14 THEN 12 ELSE poker_rank_ - 2

\* flush_out_cards, lines 69-79
flush_out_cards_of(flush_outs, all_cards) ==
    IF flush_outs.count > 0 /\ flush_outs.type = "flush_draw" /\ flush_outs.suit_int # 0
    THEN {<<rank, flush_outs.suit_int>> : rank \in
            {r \in 0..12 : create_card_from_rank_suit(r, flush_outs.suit_int)
                              \notin SeqToSet(all_cards)}}
    ELSE {}

\* straight_out_ranks, lines 86-89
straight_out_ranks_of(straight_outs) ==
    IF straight_outs.count > 0 /\ straight_outs.type # "none"
    THEN {treys_rank(straight_outs.missing_ranks[i]) : i \in DOMAIN straight_outs.missing_ranks}
    ELSE {}

\* the (rank, suit) tuples the loop of lines 111-116 adds
straight_additions(straight_out_ranks, flush_out_cards, all_cards) ==
    {t \in straight_out_ranks \X Suits :
        /\ t \notin flush_out_cards
        /\ create_card_from_rank_suit(t[1], t[2]) \notin SeqToSet(all_cards)}

\* the (rank, suit) tuples the loop of lines 119-124 adds
overcard_additions(overcard_out_ranks, total_unique_outs, all_cards) ==
    {t \in overcard_out_ranks \X Suits :
        /\ t \notin total_unique_outs
        /\ create_card_from_rank_suit(t[1], t[2]) \notin SeqToSet(all_cards)}

\* the backdoor flush equity added to the total, lines 133-135
backdoor_bonus(flush_outs) ==
    IF flush_outs.type = "backdoor_flush" THEN flush_outs.count ELSE 0

\* OutsCalculator.calculate_outs
calculate_outs(hero, board) ==
    LET hero_ranks  == [i \in DOMAIN hero |-> get_rank_int(hero[i])]
        hero_suits  == [i \in DOMAIN hero |-> get_suit_int(hero[i])]
        board_ranks == [i \in DOMAIN board |-> get_rank_int(board[i])]
        board_suits == [i \in DOMAIN board |-> get_suit_int(board[i])]
        all_cards   == hero \o board
        flush_outs    == count_flush_outs(hero_suits, board_suits)
        straight_outs == count_straight_outs(hero_ranks, board_ranks)
        overcard_outs == count_overcard_outs(hero_ranks, board_ranks)
        pair_outs     == count_pair_improvement_outs(hero_ranks, board_ranks)
        flush_out_cards    == flush_out_cards_of(flush_outs, all_cards)
        straight_out_ranks == straight_out_ranks_of(straight_outs)
        overcard_out_ranks == IF overcard_outs.count > 0 THEN overcard_outs.cards ELSE {}
        after_straight == flush_out_cards \cup
                          straight_additions(straight_out_ranks, flush_out_cards, all_cards)
        total_unique_outs == after_straight \cup
                             overcard_additions(overcard_out_ranks, after_straight, all_cards)
    IN [count |-> Cardinality(total_unique_outs) + pair_outs.count
                    + backdoor_bonus(flush_outs),
        breakdown |-> [flush_draw |-> flush_outs, straight_draw |-> straight_outs,
                       overcards |-> overcard_outs, pair_outs |-> pair_outs],
        unknown_cards |-> 52 - Len(all_cards),
        unique_out_cards |-> total_unique_outs]

(***************************************************************************)
(* Inputs.  Hands and boards are dealt from a prefix of DeckOrder:         *)
(*   2h 3h 4h 5h 5d Ad 3d 7s 6h 5s As 7d Kc                                *)
(* The hand is an ordered pair; a board lists its cards in deck order      *)
(* (hand + board hold at most 7 cards, so when two suits both have 3 or 4  *)
(* cards the hand holds one of them and the hand alone decides which suit  *)
(* a Counter meets first).  The hands of the test suite are added as       *)
(* they are.                                                               *)
(***************************************************************************)
DeckOrder == << <<0, 2>>, <<1, 2>>, <<2, 2>>, <<3, 2>>, <<3, 4>>, <<12, 4>>,
                <<1, 4>>, <<5, 1>>, <<4, 2>>, <<3, 1>>, <<12, 1>>, <<5, 4>>,
                <<11, 8>> >>

\* the first n cards of DeckOrder, by position
DeckPositions(n) == 1..(IF n < Len(DeckOrder) THEN n ELSE Len(DeckOrder))

\* board sizes analyze accepts (spot_analyzer.py line 71)
BoardSizes == 3..5

\* the cards at a set of deck positions, in deck order
RECURSIVE CardsAt(_)
CardsAt(P) == IF P = {} THEN <<>>
              ELSE LET m == Min(P) IN <<DeckOrder[m]>> \o CardsAt(P \ {m})

\* the ordered pairs of distinct positions among the first n: the hands
HandPositions(n) == {x \in DeckPositions(n) \X DeckPositions(n) : x[1] # x[2]}

\* the sets of 3 to 5 positions among the first n that avoid the hand h
BoardPositions(n, h) ==
    {X \in SUBSET (DeckPositions(n) \ {h[1], h[2]}) : Cardinality(X) \in BoardSizes}

\* the hands of tests/core/test_outs_calculator.py:
\* Ah Kh | Qh Jh 2c,  Ah Kh | Qh 5s 2c,  Kh Ts | Qh Jh 2c,  As Kh | Qh Jh 2c,
\* 9h 8h | 7h 6h 2c,  As Ad | Kh Qh Jc,  As 2h | Kh 7s 3c
TestDeals ==
    { << <<(<<12, 2>>), (<<11, 2>>)>>, <<(<<10, 2>>), (<<9, 2>>), (<<0, 8>>)>> >>,
      << <<(<<12, 2>>), (<<11, 2>>)>>, <<(<<10, 2>>), (<<3, 1>>), (<<0, 8>>)>> >>,
      << <<(<<11, 2>>), (<<8, 1>>)>>,  <<(<<10, 2>>), (<<9, 2>>), (<<0, 8>>)>> >>,
      << <<(<<12, 1>>), (<<11, 2>>)>>, <<(<<10, 2>>), (<<9, 2>>), (<<0, 8>>)>> >>,
      << <<(<<7, 2>>), (<<6, 2>>)>>,   <<(<<5, 2>>), (<<4, 2>>), (<<0, 8>>)>> >>,
      << <<(<<12, 1>>), (<<12, 4>>)>>, <<(<<11, 2>>), (<<10, 2>>), (<<9, 8>>)>> >>,
      << <<(<<12, 1>>), (<<0, 2>>)>>,  <<(<<11, 2>>), (<<5, 1>>), (<<1, 8>>)>> >> }

\* hero_cards and board_cards are a duplicate-free hand and board dealt from
\* the first n cards, or one of the test hands
DealtFrom(n) ==
    \/ \E h \in HandPositions(n) : \E B \in BoardPositions(n, h) :
          /\ hero_cards = <<DeckOrder[h[1]], DeckOrder[h[2]]>>
          /\ board_cards = CardsAt(B)
    \/ \E d \in TestDeals : hero_cards = d[1] /\ board_cards = d[2]

(***************************************************************************)
(* OutsCalculator as a state machine: one call of calculate_outs on a      *)
(* dealt hand and board.                                                   *)
(***************************************************************************)
InitOuts ==
    /\ DealtFrom(DeckSize)
    /\ pot_size = None
    /\ bet_to_call = None
    /\ effective_stack = None
    /\ outs_result = None
    /\ analysis = None
    /\ EquityIdle

CalculateOuts ==
    /\ outs_result = None
    /\ outs_result' = Some(calculate_outs(hero_cards, board_cards))
    /\ UNCHANGED <<hero_cards, board_cards, pot_size, bet_to_call,
                   effective_stack, analysis, equity_vars, range_vars, later_vars>>

NextOuts == CalculateOuts

SpecOuts == InitOuts /\ [][NextOuts]_vars

(***************************************************************************)
(* SpotAnalyzer (src/src/core/spot_analyzer.py).                           *)
(* A helper that can raise returns its dict with the field raises set to   *)
(* the exception's name ("none" when it returns normally).  The hand class *)
(* of the treys Evaluator only adds reasoning lines and is left out.       *)
(***************************************************************************)
\* round(n / d, 0) of an exact quotient, n >= 0, d > 0: to nearest, ties to even
RoundDiv(n, d) ==
    LET q == n \div d
        r == n % d
    IN IF 2 * r > d \/ (2 * r = d /\ q % 2 = 1) THEN q + 1 ELSE q

\* ["spades", "hearts", "diamonds", "clubs"][suit]: a list of 4 indexed by
\* the treys suit flag; flags 4 and 8 are out of range
suit_label(suit) ==
    CASE suit = 0 -> "spades"
      [] suit = 1 -> "hearts"
      [] suit = 2 -> "diamonds"
      [] suit = 3 -> "clubs"
      [] OTHER -> "IndexError"

\* SpotAnalyzer._count_flush_outs: returns (or raises) at the first suit with
\* 4 cards, or with 3 cards when hand + board are 5 cards
spot_count_flush_outs(hero_suits, board_suits) ==
    LET all_suits == hero_suits \o board_suits
        keys      == CounterKeys(all_suits)
        hits      == {i \in DOMAIN keys :
                        \/ Count(keys[i], all_suits) = 4
                        \/ Count(keys[i], all_suits) = 3 /\ Len(all_suits) = 5}
    IN IF hits = {}
       THEN [count |-> 0, cards_needed |-> 0, type |-> "none", suit |-> "none",
             raises |-> "none"]
       ELSE LET suit == keys[Min(hits)]
                label == suit_label(suit)
            IN [count |-> 9, cards_needed |-> 1,
                type |-> IF Count(suit, all_suits) = 4 THEN "flush_draw"
                         ELSE "backdoor_flush_turn",
                suit |-> label,
                raises |-> IF label = "IndexError" THEN "IndexError" ELSE "none"]

\* poker_ranks of _count_straight_outs: [12 - r for r in unique_ranks], the
\* distinct ranks taken high to low
spot_poker_ranks(all_ranks) ==
    LET unique_ranks == SortDesc(SeqToSet(all_ranks))
    IN [i \in DOMAIN unique_ranks |-> 12 - unique_ranks[i]]

\* SpotAnalyzer._has_straight_draw_pattern
has_straight_draw_pattern(ranks) ==
    IF Len(ranks) < 4 THEN FALSE
    ELSE \E i \in 1..(Len(ranks) - 3) : ranks[i] - ranks[i + 3] <= 4

\* SpotAnalyzer._count_straight_outs
spot_count_straight_outs(hero_ranks, board_ranks) ==
    IF has_straight_draw_pattern(spot_poker_ranks(hero_ranks \o board_ranks))
    THEN [count |-> 8, type |-> "open_ended"]
    ELSE [count |-> 0, type |-> "none"]

\* SpotAnalyzer._count_overcard_outs
spot_count_overcard_outs(hero_ranks, board_ranks) ==
    IF board_ranks = <<>> THEN [count |-> 0, cards |-> {}]
    ELSE LET max_board_rank == Max(SeqToSet(board_ranks))
             overcards == {r \in SeqToSet(hero_ranks) : r > max_board_rank}
         IN [count |-> Cardinality(overcards) * 3, cards |-> overcards]

\* SpotAnalyzer._count_pair_improvement_outs
spot_count_pair_improvement_outs(hero_ranks, board_ranks) ==
    LET all_ranks == hero_ranks \o board_ranks
        pairs == {r \in SeqToSet(all_ranks) : Count(r, all_ranks) = 2}
    IN IF pairs = {} THEN [count |-> 0, to_trips |-> 0, to_two_pair |-> 0]
       ELSE LET to_two_pair ==
                    Cardinality({i \in DOMAIN hero_ranks :
                                    Count(hero_ranks[i], all_ranks) = 1}) * 3
            IN [count |-> 2 + to_two_pair, to_trips |-> 2, to_two_pair |-> to_two_pair]

\* SpotAnalyzer._count_backdoor_flush
spot_count_backdoor_flush(hero_suits, board_suits) ==
    LET all_suits == hero_suits \o board_suits
        keys      == CounterKeys(all_suits)
        hits      == {i \in DOMAIN keys : Count(keys[i], all_suits) = 3}
    IN IF hits = {} THEN [count |-> 0, type |-> "none", suit |-> "none", raises |-> "none"]
       ELSE LET label == suit_label(keys[Min(hits)])
            IN [count |-> 1, type |-> "backdoor", suit |-> label,
                raises |-> IF label = "IndexError" THEN "IndexError" ELSE "none"]

\* SpotAnalyzer._calculate_outs: the four counts are summed as they are
spot_calculate_outs(hero, board) ==
    LET hero_ranks  == [i \in DOMAIN hero |-> get_rank_int(hero[i])]
        hero_suits  == [i \in DOMAIN hero |-> get_suit_int(hero[i])]
        board_ranks == [i \in DOMAIN board |-> get_rank_int(board[i])]
        board_suits == [i \in DOMAIN board |-> get_suit_int(board[i])]
        flush_outs    == spot_count_flush_outs(hero_suits, board_suits)
        straight_outs == spot_count_straight_outs(hero_ranks, board_ranks)
        overcard_outs == spot_count_overcard_outs(hero_ranks, board_ranks)
        pair_outs     == spot_count_pair_improvement_outs(hero_ranks, board_ranks)
        backdoor_flush == IF Len(board) = 3
                          THEN spot_count_backdoor_flush(hero_suits, board_suits)
                          ELSE [count |-> 0, type |-> "none", suit |-> "none",
                                raises |-> "none"]
    IN [raises |-> IF flush_outs.raises # "none" THEN flush_outs.raises
                   ELSE backdoor_flush.raises,
        count |-> flush_outs.count + straight_outs.count + overcard_outs.count
                    + pair_outs.count,
        breakdown |-> [flush_draw |-> flush_outs, straight_draw |-> straight_outs,
                       overcards |-> overcard_outs, pair_outs |-> pair_outs,
                       backdoor_flush |-> backdoor_flush],
        unknown_cards |-> 52 - (Len(hero) + Len(board))]

\* SpotAnalyzer._estimate_equity_from_outs, in percent (outs is an integer here)
spot_estimate_equity_from_outs(outs, board_size) ==
    IF board_size = 3 THEN (IF outs * 4 < 100 THEN outs * 4 ELSE 100)
    ELSE IF board_size = 4 THEN (IF outs * 2 < 100 THEN outs * 2 ELSE 100)
    ELSE 0

\* SpotAnalyzer._calculate_pot_odds, in hundredths of a percent
spot_calculate_pot_odds(pot, bet) ==
    IF bet = 0 THEN 0
    ELSE IF pot + bet = 0 THEN 0
    ELSE RoundDiv(10000 * bet, pot + bet)

\* SpotAnalyzer._percentage_to_ratio of the percentage num / den (den > 0):
\* "0:1", "inf:1", or X:1 with X = (100 - p) / p to one decimal (in tenths)
percentage_to_ratio(num, den) ==
    IF num >= 100 * den THEN [kind |-> "0:1", tenths |-> 0]
    ELSE IF num <= 0 THEN [kind |-> "inf:1", tenths |-> 0]
    ELSE [kind |-> "X:1", tenths |-> RoundDiv(10 * (100 * den - num), num)]

\* implied_pot of _estimate_implied_odds, doubled:
\* 2 * (pot + bet + (stack - bet) * 0.5)
implied_pot_doubled(pot, bet, stack) == 2 * pot + bet + stack

\* SpotAnalyzer._estimate_implied_odds (outs is not used by the code);
\* bet / implied_pot raises ZeroDivisionError when implied_pot is 0
spot_estimate_implied_odds(pot, bet, stack) ==
    LET d == implied_pot_doubled(pot, bet, stack)
    IN IF d = 0
       THEN [raises |-> "ZeroDivisionError", percentage |-> 0,
             ratio |-> [kind |-> "none", tenths |-> 0],
             estimated_future_winnings |-> 0]
       ELSE [raises |-> "none",
             percentage |-> RoundDiv(20000 * bet, d),
             ratio |-> percentage_to_ratio(200 * bet, d),
             estimated_future_winnings |-> 50 * (stack - bet)]

\* SpotAnalyzer._categorize_spr of spr = stack / pot (pot > 0)
spot_categorize_spr(stack, pot) ==
    IF stack <= 3 * pot THEN "low"
    ELSE IF stack <= 12 * pot THEN "medium"
    ELSE "high"

\* poker_math.categorize_spr of spr = stack / pot (pot > 0)
categorize_spr(stack, pot) ==
    IF stack < 3 * pot THEN "low (committed)"
    ELSE IF stack < 7 * pot THEN "medium"
    ELSE "high (deep)"

\* step 5 of analyze: spr (in hundredths, or infinite) and its category
spot_spr(pot, stack) ==
    IF pot > 0
    THEN [inf |-> FALSE, centi |-> RoundDiv(100 * stack, pot),
          category |-> spot_categorize_spr(stack, pot)]
    ELSE [inf |-> TRUE, centi |-> 0, category |-> "high"]

\* SpotAnalyzer._calculate_ev: EV(call) in hundredths of a chip (exact for
\* an integer equity percentage and integer chips), EV(fold) = 0
spot_calculate_ev(equity, pot, bet) ==
    [call |-> equity * (pot + bet) - (100 - equity) * bet, fold |-> 0]

\* mutant of ev_is_positive: a zero EV taken for positive
ev_is_not_negative(ev) == ev.call >= 0

\* "if ev_analysis['call'] > 0", line 538
ev_is_positive(ev) == ev.call > 0

\* "if implied_odds and equity >= implied_odds['percentage']", line 561
implied_odds_justify(equity, implied_odds) ==
    implied_odds # None /\ equity * 100 >= implied_odds[1].percentage

\* SpotAnalyzer._generate_recommendation, from the equity (percent) and the
\* optional pot_odds, implied_odds and ev of the analysis
spot_generate_recommendation(equity, pot_odds, implied_odds, ev) ==
    IF pot_odds = None \/ ev = None
    THEN [action |-> "ANALYZE", confidence |-> "low",
          reasoning |-> <<"insufficient_information">>]
    ELSE IF equity * 100 >= pot_odds[1].required_equity
    THEN IF ev_is_positive(ev[1])
         THEN [action |-> "CALL", confidence |-> "high",
               reasoning |-> <<"equity_exceeds_pot_odds", "positive_ev">>]
         ELSE [action |-> "CALL", confidence |-> "medium",
               reasoning |-> <<"equity_sufficient_ev_marginal">>]
    ELSE IF implied_odds_justify(equity, implied_odds)
         THEN [action |-> "CALL", confidence |-> "medium",
               reasoning |-> <<"implied_odds_justify_call", "expected_future_winnings">>]
         ELSE [action |-> "FOLD", confidence |-> "high",
               reasoning |-> <<"equity_below_pot_odds", "negative_ev">>]

\* step 3 of analyze: pot_odds is computed only when both amounts are given
spot_pot_odds(pot, bet) ==
    IF pot # None /\ bet # None
    THEN LET pot_odds == spot_calculate_pot_odds(pot[1], bet[1])
         IN Some([percentage |-> pot_odds,
                  ratio |-> percentage_to_ratio(pot_odds, 100),
                  required_equity |-> pot_odds])
    ELSE None

\* mutant of spot_ev: ev computed from the pot alone, a missing bet read as 0
spot_ev_pot_only(equity, pot, bet) ==
    IF pot # None
    THEN Some(spot_calculate_ev(equity, pot[1], IF bet = None THEN 0 ELSE bet[1]))
    ELSE None

\* step 6 of analyze: ev is computed only when both amounts are given
spot_ev(equity, pot, bet) ==
    IF pot # None /\ bet # None
    THEN Some(spot_calculate_ev(equity, pot[1], bet[1]))
    ELSE None

\* HandEvaluator.evaluate inside analyze (line 77): the treys Evaluator
\* looks every 5-card combination up in its tables; a combination of one
\* suit with a repeated card, or of five cards of one rank, is in no table
\* (KeyError, re-raised as ValueError)
hand_evaluator_raises(hero, board) ==
    LET cards == hero \o board
    IN \E P \in SUBSET DOMAIN cards :
          /\ Cardinality(P) = 5
          /\ LET suits == {get_suit_int(cards[i]) : i \in P}
                 ranks == {get_rank_int(cards[i]) : i \in P}
             IN \/ Cardinality(suits) = 1 /\ Cardinality(ranks) < 5
                \/ Cardinality(suits) > 1 /\ Cardinality(ranks) = 1

\* SpotAnalyzer.analyze on parsed cards
analyze(hero, board, pot, bet, stack) ==
    LET outs_data == spot_calculate_outs(hero, board)
        equity    == spot_estimate_equity_from_outs(outs_data.count, Len(board))
        pot_odds  == spot_pot_odds(pot, bet)
        wants_implied == pot # None /\ bet # None /\ stack # None
        implied   == IF wants_implied
                     THEN Some(spot_estimate_implied_odds(pot[1], bet[1], stack[1]))
                     ELSE None
        spr       == IF pot # None /\ stack # None
                     THEN Some(spot_spr(pot[1], stack[1])) ELSE None
        ev        == spot_ev(equity, pot, bet)
    IN IF Len(hero) # 2 \/ Len(board) < 3 \/ Len(board) > 5
       THEN [status |-> "raised", error |-> "ValueError"]
       ELSE IF hand_evaluator_raises(hero, board)
       THEN [status |-> "raised", error |-> "ValueError"]
       ELSE IF outs_data.raises # "none"
       THEN [status |-> "raised", error |-> outs_data.raises]
       ELSE IF implied # None /\ implied[1].raises # "none"
       THEN [status |-> "raised", error |-> implied[1].raises]
       ELSE [status |-> "ok",
             outs |-> outs_data.breakdown,
             out_count |-> outs_data.count,
             unknown_cards |-> outs_data.unknown_cards,
             equity |-> equity,
             equity_method |-> "outs_estimation",
             pot_odds |-> pot_odds,
             implied_odds |-> implied,
             spr |-> spr,
             ev |-> ev,
             recommendation |->
                 spot_generate_recommendation(equity, pot_odds, implied, ev)]

(***************************************************************************)
(* SpotAnalyzer as a state machine: one call of analyze on a dealt hand    *)
(* and board, with each of pot_size, bet_to_call and effective_stack       *)
(* given (0..MaxChips chips) or omitted.                                   *)
(***************************************************************************)
Amounts == {None} \cup {Some(v) : v \in 0..MaxChips}

InitSpot ==
    /\ DealtFrom(SpotDeckSize)
    /\ pot_size = None
    /\ bet_to_call = None
    /\ effective_stack = None
    /\ outs_result = None
    /\ analysis = None
    /\ EquityIdle

Analyze ==
    /\ analysis = None
    /\ \E pot \in Amounts, bet \in Amounts, stack \in Amounts :
         /\ pot_size' = pot
         /\ bet_to_call' = bet
         /\ effective_stack' = stack
         /\ analysis' = Some(analyze(hero_cards, board_cards, pot, bet, stack))
    /\ UNCHANGED <<hero_cards, board_cards, outs_result, equity_vars, range_vars, later_vars>>

NextSpot == Analyze

SpecSpot == InitSpot /\ [][NextSpot]_vars

(***************************************************************************)
(* Claims about OutsCalculator (checked under SpecOuts).                   *)
(***************************************************************************)
\* the cards of the hand and the board
Dealt == SeqToSet(hero_cards) \cup SeqToSet(board_cards)

\* how many dealt cards have suit s
SuitCount(s) == Cardinality({c \in Dealt : get_suit_int(c) = s})

\* how many dealt cards have treys rank r
RankCount(r) == Cardinality({c \in Dealt : get_rank_int(c) = r})

\* the poker ranks (2..14, ace = 14) among the dealt cards
DealtPokerRanks == {poker_rank(get_rank_int(c)) : c \in Dealt}

\* a physical card has one of the missing ranks (an ace also answers to a
\* missing rank of 1, the low end of the 5-high straight)
HasMissingRank(c, missing_ranks) ==
    \/ poker_rank(get_rank_int(c)) \in SeqToSet(missing_ranks)
    \/ get_rank_int(c) = 12 /\ 1 \in SeqToSet(missing_ranks)

\* the undealt physical cards that complete the real flush draw, have a
\* missing straight-draw rank or pair an overcard rank
PhysicalOutCards(breakdown) ==
    {c \in FullDeck \ Dealt :
        \/ breakdown.flush_draw.type = "flush_draw"
             /\ get_suit_int(c) = breakdown.flush_draw.suit_int
        \/ HasMissingRank(c, breakdown.straight_draw.missing_ranks)
        \/ get_rank_int(c) \in breakdown.overcards.cards}

\* C1: the count calculate_outs returns is the number of distinct undealt
\* physical cards that complete the flush draw, have a missing straight rank
\* or pair an overcard, plus the pair-improvement count, plus the
\* backdoor-flush bonus.
C1_CountIsDistinctPhysicalOuts ==
    outs_result # None =>
        LET r == outs_result[1]
            bonus == IF r.breakdown.flush_draw.type = "backdoor_flush"
                     THEN r.breakdown.flush_draw.count ELSE 0
        IN r.count = Cardinality(PhysicalOutCards(r.breakdown))
                        + r.breakdown.pair_outs.count + bonus

\* C2: whenever exactly four dealt cards share a suit, flush_draw is a real
\* flush draw of 9 outs naming that suit.
C2_FourSuitedIsFlushDraw ==
    outs_result # None =>
        \A s \in Suits :
            SuitCount(s) = 4 =>
                LET f == outs_result[1].breakdown.flush_draw
                IN f.type = "flush_draw" /\ f.count = 9 /\ f.suit = suit_names(s)

\* four consecutive ranks a..a+3 open on both ends: the rank below and the
\* rank above are absent and both 5-rank windows exist
OpenEndedAt(a) ==
    /\ a .. (a + 3) \subseteq DealtPokerRanks
    /\ (a - 1) \notin DealtPokerRanks
    /\ (a + 4) \notin DealtPokerRanks

OpenEndedStarts == {a \in 2..10 : OpenEndedAt(a)}

StraightWindows == {(h - 4) .. h : h \in 5..14} \cup {{14, 2, 3, 4, 5}}

\* the distinct missing ranks of the windows holding exactly 4 dealt ranks
WindowMissingRanks ==
    UNION {W \ DealtPokerRanks :
             W \in {V \in StraightWindows : Cardinality(V \cap DealtPokerRanks) = 4}}

C5_BackdoorOnlyOnFlop ==
    outs_result # None =>
        LET r == outs_result[1]
        IN /\ r.breakdown.flush_draw.type = "backdoor_flush" =>
                /\ Len(board_cards) <= 3
                /\ SuitCount(r.breakdown.flush_draw.suit_int) = 3
           /\ Len(board_cards) >= 4 =>
                r.count = Cardinality(r.unique_out_cards) + r.breakdown.pair_outs.count

\* some rank appears exactly twice across hand + board
HasPair == \E r \in Ranks : RankCount(r) = 2

\* C6 as stated: 2 to trips plus 3 for each hole card that is not part of
\* the pair (its rank does not appear exactly twice); 0 without a pair.
C6_PairOutsNotPartOfPair ==
    outs_result # None =>
        LET p == outs_result[1].breakdown.pair_outs
            others == {i \in DOMAIN hero_cards :
                          RankCount(get_rank_int(hero_cards[i])) # 2}
        IN IF HasPair
           THEN p.count = 2 + 3 * Cardinality(others)
           ELSE p.count = 0 /\ p.to_trips = 0 /\ p.to_two_pair = 0

\* C6 amended: 2 to trips plus 3 for each hole card whose rank appears exactly
\* once across hand + board; 0 without a pair.
C6_PairOutsUnpairedHoleCards ==
    outs_result # None =>
        LET p == outs_result[1].breakdown.pair_outs
            singles == {i \in DOMAIN hero_cards :
                           RankCount(get_rank_int(hero_cards[i])) = 1}
        IN IF HasPair
           THEN /\ p.to_trips = 2
                /\ p.to_two_pair = 3 * Cardinality(singles)
                /\ p.count = 2 + 3 * Cardinality(singles)
           ELSE p.count = 0 /\ p.to_trips = 0 /\ p.to_two_pair = 0

\* C6 witness: a pair on the board, one hole card in trips and the other
\* unpaired: 2 + 3 outs
C6_Witness ==
    /\ outs_result # None
    /\ HasPair
    /\ RankCount(get_rank_int(hero_cards[1])) = 3
    /\ RankCount(get_rank_int(hero_cards[2])) = 1
    /\ outs_result[1].breakdown.pair_outs.count = 5

(***************************************************************************)
(* Claims about SpotAnalyzer (checked under SpecSpot).                     *)
(***************************************************************************)
\* analyze has returned a result (it did not raise)
Analyzed == analysis # None /\ analysis[1].status = "ok"

BothAmountsGiven == pot_size # None /\ bet_to_call # None

\* the reported equity clears the reported implied-odds percentage
ClearsImpliedOdds(a) ==
    a.implied_odds # None /\ a.equity * 100 >= a.implied_odds[1].percentage

\* C7: with pot_size and bet_to_call given the recommendation follows the
\* four-way rule on equity, required equity, EV(call) and implied odds.
C7_DecisionRule ==
    (Analyzed /\ BothAmountsGiven) =>
        LET a   == analysis[1]
            rec == a.recommendation
            has_odds == a.pot_odds # None /\ a.ev # None
                          /\ a.equity * 100 >= a.pot_odds[1].required_equity
            ev_positive == a.ev # None /\ a.ev[1].call > 0
        IN /\ a.pot_odds # None
           /\ a.ev # None
           /\ (has_odds /\ ev_positive) =>
                 rec.action = "CALL" /\ rec.confidence = "high"
           /\ (has_odds /\ ~ev_positive) =>
                 rec.action = "CALL" /\ rec.confidence = "medium"
           /\ (~has_odds /\ ClearsImpliedOdds(a)) =>
                 rec.action = "CALL" /\ rec.confidence = "medium"
           /\ (~has_odds /\ ~ClearsImpliedOdds(a)) =>
                 rec.action = "FOLD" /\ rec.confidence = "high"

\* C7 witness: equity below the required equity but clearing the implied
\* odds, recommended as a medium-confidence CALL
C7_Witness ==
    /\ Analyzed
    /\ BothAmountsGiven
    /\ analysis[1].equity * 100 < analysis[1].pot_odds[1].required_equity
    /\ ClearsImpliedOdds(analysis[1])
    /\ analysis[1].recommendation.action = "CALL"
    /\ analysis[1].recommendation.confidence = "medium"

\* C8: the out count and the per-category counts analyze reports are the
\* ones OutsCalculator.calculate_outs computes for the same hand and board.
C8_SpotUsesOutsCalculator ==
    Analyzed =>
        LET a == analysis[1]
            o == calculate_outs(hero_cards, board_cards)
        IN /\ a.out_count = o.count
           /\ a.outs.flush_draw.count = o.breakdown.flush_draw.count
           /\ a.outs.straight_draw.count = o.breakdown.straight_draw.count
           /\ a.outs.overcards.count = o.breakdown.overcards.count
           /\ a.outs.pair_outs.count = o.breakdown.pair_outs.count

\* C9: analyze returns an analysis and raises nothing for every
\* duplicate-free 2-card hand, 3-5-card board and non-negative amounts.
C9_AnalyzeNeverRaises ==
    analysis # None => analysis[1].status = "ok"

\* C10: ANALYZE with confidence low and no pot_odds and no ev exactly when
\* pot_size or bet_to_call is missing; CALL or FOLD when both are given.
C10_AnalyzeIffNoPotBet ==
    Analyzed =>
        LET a == analysis[1]
        IN /\ a.recommendation.action = "ANALYZE" <=> ~BothAmountsGiven
           /\ ~BothAmountsGiven =>
                /\ a.recommendation.confidence = "low"
                /\ a.pot_odds = None
                /\ a.ev = None
           /\ BothAmountsGiven =>
                /\ a.recommendation.action \in {"CALL", "FOLD"}
                /\ a.pot_odds # None
                /\ a.ev # None

\* C10 witness: only the pot is given and the recommendation is ANALYZE
C10_Witness ==
    /\ Analyzed
    /\ pot_size # None
    /\ bet_to_call = None
    /\ analysis[1].recommendation.action = "ANALYZE"
    /\ analysis[1].recommendation.confidence = "low"

\* C11: the estimated future winnings of the implied odds analyze returns
\* are half the remaining effective stack scaled by min(outs, 15) / 15 (zero
\* for zero outs, the full half from 15 outs on; the remaining stack read
\* either as the stack or as the stack after the call), and the percentage
\* is bet / (pot + bet + future winnings) x 100.
C11_ImpliedOddsScaledByOuts ==
    (Analyzed /\ analysis[1].implied_odds # None) =>
        LET a == analysis[1]
            io == a.implied_odds[1]
            capped == Min({a.out_count, 15})
            pot == pot_size[1]
            bet == bet_to_call[1]
            fw == io.estimated_future_winnings
        IN /\ \/ 15 * fw = 50 * (effective_stack[1] - bet) * capped
              \/ 15 * fw = 50 * effective_stack[1] * capped
           /\ io.percentage = RoundDiv(1000000 * bet, 100 * (pot + bet) + fw)

\* the low / medium / high level a category label of either function names
SprLevel(label) ==
    CASE label \in {"low", "low (committed)"} -> "low"
      [] label \in {"medium"} -> "medium"
      [] label \in {"high", "high (deep)"} -> "high"

\* C12: for the SPR of the analysed spot, poker_math.categorize_spr and
\* SpotAnalyzer._categorize_spr give the same low / medium / high level.
C12_OneSprScheme ==
    (Analyzed /\ analysis[1].spr # None /\ ~analysis[1].spr[1].inf) =>
        SprLevel(analysis[1].spr[1].category)
            = SprLevel(categorize_spr(effective_stack[1], pot_size[1]))

(***************************************************************************)
(* EquityCalculator (src/src/core/hand_evaluator.py).                      *)
(* The treys Evaluator ranks the best 5-card hand of the 7 cards in 7462   *)
(* equivalence classes, a lower score being a better hand.  hand_strength  *)
(* orders the same classes by hand category and kickers (higher is         *)
(* better); evaluate turns it into a score where lower is better.          *)
(* Deck() is a freshly shuffled 52-card deck (random.shuffle of the module *)
(* random): what deck.draw deals is any choice of undealt cards.           *)
(***************************************************************************)
\* number of cards of EquityDeckOrder the calculator's inputs and draws come from
EquityDeckSize == 11
\* iterations ranges over 0..MaxIterations
MaxIterations == 2
\* number of calls of calculate made with the same arguments
MaxCalls == 2

\* the highest card of the best straight among a set of ranks (3 for the
\* wheel A-2-3-4-5), -1 without a straight
straight_high(R) ==
    LET highs == {h \in 4..12 : (h - 4)..h \subseteq R}
                   \cup (IF {12, 0, 1, 2, 3} \subseteq R THEN {3} ELSE {})
    IN IF highs = {} THEN -1 ELSE Max(highs)

\* the n highest ranks of a set (all of them if it has fewer)
top_ranks(R, n) ==
    LET s == SortDesc(R) IN SubSeq(s, 1, IF Len(s) < n THEN Len(s) ELSE n)

\* a hand category (0 high card .. 8 straight flush) and its ranks in order
\* of importance as one number
RECURSIVE strength_code(_, _)
strength_code(acc, ks) ==
    IF ks = <<>> THEN acc ELSE strength_code(13 * acc + Head(ks), Tail(ks))

hand_code(category, ks) ==
    LET padded == ks \o [i \in 1..(5 - Len(ks)) |-> 0]
    IN strength_code(category, padded)

\* the strength of the best 5-card hand among a set of 5 to 7 cards
hand_strength(C) ==
    LET R == {get_rank_int(c) : c \in C}
        n(r) == Cardinality({c \in C : get_rank_int(c) = r})
        flush_suits == {s \in Suits : Cardinality({c \in C : get_suit_int(c) = s}) >= 5}
        FR == {get_rank_int(c) : c \in {d \in C : get_suit_int(d) \in flush_suits}}
        sf == straight_high(FR)
        st == straight_high(R)
        quads == {r \in R : n(r) = 4}
        trips == {r \in R : n(r) >= 3}
        pairs == {r \in R : n(r) >= 2}
    IN IF sf >= 0 THEN hand_code(8, <<sf>>)
       ELSE IF quads # {}
       THEN LET q == Max(quads) IN hand_code(7, <<q, Max(R \ {q})>>)
       ELSE IF trips # {} /\ pairs \ {Max(trips)} # {}
       THEN LET t == Max(trips) IN hand_code(6, <<t, Max(pairs \ {t})>>)
       ELSE IF FR # {} THEN hand_code(5, top_ranks(FR, 5))
       ELSE IF st >= 0 THEN hand_code(4, <<st>>)
       ELSE IF trips # {}
       THEN LET t == Max(trips) IN hand_code(3, <<t>> \o top_ranks(R \ {t}, 2))
       ELSE IF Cardinality(pairs) >= 2
       THEN LET p1 == Max(pairs)
                p2 == Max(pairs \ {p1})
            IN hand_code(2, <<p1, p2, Max(R \ {p1, p2})>>)
       ELSE IF pairs # {}
       THEN LET p == Max(pairs) IN hand_code(1, <<p>> \o top_ranks(R \ {p}, 3))
       ELSE hand_code(0, top_ranks(R, 5))

\* Evaluator.evaluate(board, hand): lower is better
evaluate(board, hand) ==
    hand_code(9, <<>>) - hand_strength(SeqToSet(board) \cup SeqToSet(hand))

\* the result a call of calculate ends with: the dict it returns, or the
\* ValueError its "except Exception" clause raises for any failure
equity_error(message) == [status |-> "raised", error |-> "ValueError", message |-> message]

\* the validation of calculate (lines 142-153): the message of the error it
\* raises, "" when the arguments pass
equity_validation(hero, villain, board) ==
    LET all_cards == hero \o villain \o board
    IN IF Len(hero) # 2 THEN "Hero hand must have 2 cards"
       ELSE IF Len(villain) # 2 THEN "Villain hand must have 2 cards"
       ELSE IF Len(board) > 5 THEN "Board can have max 5 cards"
       ELSE IF Len(all_cards) # Cardinality(SeqToSet(all_cards))
       THEN "Duplicate cards detected"
       ELSE ""

\* the counters of the simulation loop after one more iteration in which
\* deck.draw dealt the cards drawn
simulate_one(sim, hero, villain, board, drawn) ==
    LET simulated_board == board \o drawn
        hero_score == evaluate(simulated_board, hero)
        villain_score == evaluate(simulated_board, villain)
    IN IF hero_score < villain_score
       THEN [sim EXCEPT !.i = @ + 1, !.hero_wins = @ + 1]
       ELSE IF villain_score < hero_score
       THEN [sim EXCEPT !.i = @ + 1, !.villain_wins = @ + 1]
       ELSE [sim EXCEPT !.i = @ + 1, !.ties = @ + 1]

\* mutant of equity_result: a tie counted as a whole win for both players
equity_result_ties_whole(sim, total) ==
    IF total = 0 THEN equity_error("division by zero")
    ELSE [status |-> "ok",
          hero_equity |-> RoundDiv(10000 * (sim.hero_wins + sim.ties), total),
          villain_equity |-> RoundDiv(10000 * (sim.villain_wins + sim.ties), total),
          hero_wins |-> sim.hero_wins,
          villain_wins |-> sim.villain_wins,
          ties |-> sim.ties,
          iterations |-> total]

\* lines 184-196: the equities (in hundredths of a percent) and the counts;
\* total = 0 divides by zero
equity_result(sim, total) ==
    IF total = 0 THEN equity_error("division by zero")
    ELSE [status |-> "ok",
          hero_equity |-> RoundDiv(10000 * (2 * sim.hero_wins + sim.ties), 2 * total),
          villain_equity |-> RoundDiv(10000 * (2 * sim.villain_wins + sim.ties), 2 * total),
          hero_wins |-> sim.hero_wins,
          villain_wins |-> sim.villain_wins,
          ties |-> sim.ties,
          iterations |-> total]

(***************************************************************************)
(* Inputs of the equity calculator.  Hole cards come from the first four   *)
(* cards of EquityDeckOrder, boards from the cards after them:             *)
(*   Ah Qd Ad Qc | Jh Th 9h 8c 7s 2h 5d As Kd                              *)
(***************************************************************************)
EquityDeckOrder == << <<12, 2>>, <<10, 4>>, <<12, 4>>, <<10, 8>>,
                      <<9, 2>>, <<8, 2>>, <<7, 2>>, <<6, 8>>, <<5, 1>>,
                      <<0, 2>>, <<3, 4>>, <<12, 1>>, <<11, 4>> >>

\* the cards of the bounded deck
EquityDeck ==
    {EquityDeckOrder[i] :
        i \in 1..(IF EquityDeckSize < Len(EquityDeckOrder)
                  THEN EquityDeckSize ELSE Len(EquityDeckOrder))}

\* the cards at positions a..b of EquityDeckOrder, in deck order
EquityCardsAt(a, b) == [i \in 1..(b - a + 1) |-> EquityDeckOrder[a + i - 1]]

\* hole cards as they are given: one or two cards among the first four
\* (a card given twice included)
HoleCards ==
    {<<EquityDeckOrder[i]>> : i \in 1..4}
      \cup {<<EquityDeckOrder[x[1]], EquityDeckOrder[x[2]]>> :
                x \in {y \in (1..4) \X (1..4) : y[1] <= y[2]}}

\* boards as they are given: 0 to 6 consecutive cards after the hole cards
EquityBoards ==
    {EquityCardsAt(x[1], x[2]) :
        x \in {y \in (5..Cardinality(EquityDeck)) \X (4..Cardinality(EquityDeck)) :
                  y[2] - y[1] + 1 \in 0..6}}

\* mutant of Draws: a card is dealt even when the board is complete
Draws_at_least_one(known, k) ==
    {LET P == SortAsc({i \in 1..Len(EquityDeckOrder) : EquityDeckOrder[i] \in D})
     IN [i \in 1..Len(P) |-> EquityDeckOrder[P[i]]] :
        D \in {X \in SUBSET (EquityDeck \ known) :
                 Cardinality(X) = (IF k = 0 THEN 1 ELSE k)}}

\* what deck.draw(k) can deal: k undealt cards, in any order (the order
\* does not change a score)
Draws(known, k) ==
    {LET P == SortAsc({i \in 1..Len(EquityDeckOrder) : EquityDeckOrder[i] \in D})
     IN [i \in 1..Len(P) |-> EquityDeckOrder[P[i]]] :
        D \in {X \in SUBSET (EquityDeck \ known) : Cardinality(X) = k}}

(***************************************************************************)
(* EquityCalculator as a state machine: calls of calculate with the same   *)
(* arguments, one after the other; a call validates, runs the simulation   *)
(* loop one iteration at a time and returns.                               *)
(***************************************************************************)
InitEquity ==
    /\ hero_cards \in HoleCards
    /\ villain_cards \in HoleCards
    /\ board_cards \in EquityBoards
    /\ iterations \in 0..MaxIterations
    /\ simulation = None
    /\ equity_results = <<>>
    /\ element = <<>>
    /\ expansion = <<>>
    /\ LaterIdle
    /\ pot_size = None
    /\ bet_to_call = None
    /\ effective_stack = None
    /\ outs_result = None
    /\ analysis = None

\* lines 136-158: parse, validate, reset the counters
BeginCalculate ==
    /\ simulation = None
    /\ Len(equity_results) < MaxCalls
    /\ LET message == equity_validation(hero_cards, villain_cards, board_cards)
       IN IF message # ""
          THEN /\ equity_results' = Append(equity_results, equity_error(message))
               /\ UNCHANGED simulation
          ELSE /\ simulation' = Some([i |-> 0, hero_wins |-> 0,
                                      villain_wins |-> 0, ties |-> 0])
               /\ UNCHANGED equity_results
    /\ UNCHANGED <<hero_cards, board_cards, pot_size, bet_to_call, effective_stack,
                   outs_result, analysis, villain_cards, iterations, range_vars, later_vars>>

\* lines 160-182: one iteration of the loop on a fresh shuffled deck
SimulateIteration ==
    /\ simulation # None
    /\ simulation[1].i < iterations
    /\ \E drawn \in Draws(SeqToSet(hero_cards \o villain_cards \o board_cards),
                          5 - Len(board_cards)) :
          simulation' = Some(simulate_one(simulation[1], hero_cards,
                                          villain_cards, board_cards, drawn))
    /\ UNCHANGED <<hero_cards, board_cards, pot_size, bet_to_call, effective_stack,
                   outs_result, analysis, villain_cards, iterations, equity_results,
                   range_vars, later_vars>>

\* lines 184-199: the loop is over, the equities are computed and returned
FinishCalculate ==
    /\ simulation # None
    /\ simulation[1].i >= iterations
    /\ equity_results' = Append(equity_results, equity_result(simulation[1], iterations))
    /\ simulation' = None
    /\ UNCHANGED <<hero_cards, board_cards, pot_size, bet_to_call, effective_stack,
                   outs_result, analysis, villain_cards, iterations, range_vars, later_vars>>

NextEquity == BeginCalculate \/ SimulateIteration \/ FinishCalculate

SpecEquity == InitEquity /\ [][NextEquity]_vars

(***************************************************************************)
(* Claims about EquityCalculator (checked under SpecEquity).               *)
(***************************************************************************)
\* the arguments pass the validation of calculate
EquityArgumentsValid ==
    equity_validation(hero_cards, villain_cards, board_cards) = ""

\* the results of the calls that returned a dict
ReturnedResults ==
    {equity_results[k] : k \in {j \in DOMAIN equity_results :
                                   equity_results[j].status = "ok"}}

IsEquityOf(e, wins, tied, total) ==
    Abs(2 * total * e - 10000 * (2 * wins + tied)) <= total

C15_SameArgumentsSameResult ==
    \A j \in DOMAIN equity_results, k \in DOMAIN equity_results :
        equity_results[j] = equity_results[k]

\* C16: a call of calculate with a board of 1, 2 or more than 5 cards ends
\* with an error, never with a result.
C16_BoardSizeChecked ==
    Len(board_cards) \notin {0, 3, 4, 5} =>
        \A k \in DOMAIN equity_results : equity_results[k].status = "raised"

(***************************************************************************)
(* OutsCalculator and SpotAnalyzer on cards as a caller can give them:     *)
(* a hand of 1 to 3 cards and a board of 0 to 6 cards in which a card may  *)
(* appear more than once.                                                  *)
(***************************************************************************)
\* number of cards of DeckOrder these boards are taken from
AnyDeckSize == 5

\* hands as they are given: 2h | 2h 2h | 2h 3h | 2h 3h 4h
AnyHands ==
    {<<DeckOrder[1]>>, <<DeckOrder[1], DeckOrder[1]>>,
     <<DeckOrder[1], DeckOrder[2]>>, <<DeckOrder[1], DeckOrder[2], DeckOrder[3]>>}

\* boards as they are given: any cards among the first AnyDeckSize (the
\* hand's cards included), in deck order, the last one possibly given twice
AnyBoards ==
    LET plain == {CardsAt(P) : P \in {X \in SUBSET DeckPositions(AnyDeckSize) :
                                        Cardinality(X) <= 6}}
    IN plain \cup {Append(b, b[Len(b)]) : b \in {c \in plain : Len(c) \in 1..5}}

InitAnyCards ==
    /\ hero_cards \in AnyHands
    /\ board_cards \in AnyBoards
    /\ pot_size = None
    /\ bet_to_call = None
    /\ effective_stack = None
    /\ outs_result = None
    /\ analysis = None
    /\ EquityIdle

NextAnyCards == CalculateOuts \/ Analyze

SpecAnyCards == InitAnyCards /\ [][NextAnyCards]_vars

\* some card appears twice across hand + board
HasRepeatedCard ==
    LET all_cards == hero_cards \o board_cards
    IN Len(all_cards) # Cardinality(SeqToSet(all_cards))

\* C17: with a card repeated across hand + board, calculate_outs returns no
\* result and analyze ends with an error.
C17_RepeatedCardRejected ==
    HasRepeatedCard =>
        /\ outs_result = None
        /\ analysis # None => analysis[1].status = "raised"

\* C18: with a hand of other than 2 cards or a board of other than 3 to 5
\* cards, calculate_outs returns no result.
C18_OutsSizesChecked ==
    (Len(hero_cards) # 2 \/ Len(board_cards) \notin 3..5) => outs_result = None

(***************************************************************************)
(* RangeParser (src/src/core/range_parser.py).                             *)
(* A string is the sequence of its characters.  The strings of the model   *)
(* hold no whitespace, so str.strip leaves them as they are.               *)
(***************************************************************************)
\* number of ranks, from the ace down, the elements are written with
MaxRangeRanks == 5

RANKS == <<"A", "K", "Q", "J", "T", "9", "8", "7", "6", "5", "4", "3", "2">>

\* RANK_VALUES.get(rank, default)
RANK_VALUES_get(rank, default) ==
    IF \E i \in DOMAIN RANKS : RANKS[i] = rank
    THEN (CHOOSE i \in DOMAIN RANKS : RANKS[i] = rank) - 1
    ELSE default

\* the letters of the model in their two cases
Letters == <<(<<"a", "A">>), (<<"k", "K">>), (<<"q", "Q">>), (<<"j", "J">>),
             (<<"t", "T">>), (<<"s", "S">>), (<<"o", "O">>), (<<"x", "X">>)>>

\* str.upper and str.lower, character by character
upper(s) ==
    [i \in DOMAIN s |->
        IF \E l \in DOMAIN Letters : Letters[l][1] = s[i]
        THEN Letters[CHOOSE l \in DOMAIN Letters : Letters[l][1] = s[i]][2]
        ELSE s[i]]

lower(s) ==
    [i \in DOMAIN s |->
        IF \E l \in DOMAIN Letters : Letters[l][2] = s[i]
        THEN Letters[CHOOSE l \in DOMAIN Letters : Letters[l][2] = s[i]][1]
        ELSE s[i]]

\* str.split("-")
RECURSIVE split_dash(_)
split_dash(s) ==
    IF \A i \in DOMAIN s : s[i] # "-" THEN <<s>>
    ELSE LET d == Min({i \in DOMAIN s : s[i] = "-"})
         IN <<SubSeq(s, 1, d - 1)>> \o split_dash(SubSeq(s, d + 1, Len(s)))

\* a list of hands returned, or the ValueError raised
expanded_ok(hands) == [status |-> "ok", hands |-> hands, message |-> ""]

range_error(message) == [status |-> "raised", hands |-> <<>>, message |-> message]

\* mutant of plus_kickers: the kicker written in the token is left out
plus_kickers_above(high_idx, low_idx) == low_idx - high_idx - 1

\* the number of kickers of "range(high_idx + 1, low_idx + 1)", lines 107, 121
plus_kickers(high_idx, low_idx) == low_idx - high_idx

\* RangeParser._expand_plus
expand_plus(base) ==
    IF Len(base) = 2 /\ base[1] = base[2]
    THEN LET rank_idx == RANK_VALUES_get(base[1], -1)
         IN IF rank_idx = -1 THEN range_error("Invalid rank in notation")
            ELSE expanded_ok([i \in 1..(rank_idx + 1) |-> <<RANKS[i], RANKS[i]>>])
    ELSE IF Len(base) = 3
    THEN LET suit_type == lower(<<base[3]>>)[1]
             high_idx == RANK_VALUES_get(base[1], -1)
             low_idx == RANK_VALUES_get(base[2], -1)
         IN IF suit_type \notin {"s", "o"} THEN range_error("Invalid suit type in notation")
            ELSE IF high_idx = -1 \/ low_idx = -1
            THEN range_error("Invalid ranks in notation")
            ELSE expanded_ok([k \in 1..plus_kickers(high_idx, low_idx) |->
                                <<base[1], RANKS[high_idx + 1 + k], suit_type>>])
    ELSE IF Len(base) = 2
    THEN LET high_idx == RANK_VALUES_get(base[1], -1)
             low_idx == RANK_VALUES_get(base[2], -1)
         IN IF high_idx = -1 \/ low_idx = -1
            THEN range_error("Invalid ranks in notation")
            ELSE expanded_ok([k \in 1..(2 * plus_kickers(high_idx, low_idx)) |->
                                <<base[1], RANKS[high_idx + 1 + (k + 1) \div 2],
                                  IF k % 2 = 1 THEN "s" ELSE "o">>])
    ELSE expanded_ok(<<>>)

\* mutant of different_suit_type: the suit markers are never compared
different_suit_type_ignored(start, end) == FALSE

\* "if suit_type != end[2].lower()", line 165
different_suit_type(start, end) == lower(<<start[3]>>)[1] # lower(<<end[3]>>)[1]

\* RangeParser._expand_range
expand_range(notation) ==
    LET parts == split_dash(notation)
    IN IF Len(parts) # 2 THEN range_error("Invalid range notation")
       ELSE LET start == upper(parts[1])
                end == upper(parts[2])
            IN IF Len(start) = 2 /\ start[1] = start[2] /\ Len(end) = 2 /\ end[1] = end[2]
               THEN LET start_idx == RANK_VALUES_get(start[1], -1)
                        end_idx == RANK_VALUES_get(end[1], -1)
                        first == Min({start_idx, end_idx})
                        last == Max({start_idx, end_idx})
                    IN IF start_idx = -1 \/ end_idx = -1
                       THEN range_error("Invalid pair range")
                       ELSE expanded_ok([k \in 1..(last - first + 1) |->
                                           <<RANKS[first + k], RANKS[first + k]>>])
               ELSE IF Len(start) = 3 /\ Len(end) = 3
               THEN LET suit_type == lower(<<start[3]>>)[1]
                        start_low_idx == RANK_VALUES_get(start[2], -1)
                        end_low_idx == RANK_VALUES_get(end[2], -1)
                        first == Min({start_low_idx, end_low_idx})
                        last == Max({start_low_idx, end_low_idx})
                    IN IF start[1] # end[1]
                       THEN range_error("Range must have same high card")
                       ELSE IF different_suit_type(start, end)
                       THEN range_error("Range must have same suit type")
                       ELSE IF start_low_idx = -1 \/ end_low_idx = -1
                       THEN range_error("Invalid ranks in range")
                       ELSE expanded_ok([k \in 1..(last - first + 1) |->
                                           <<start[1], RANKS[first + k], suit_type>>])
               ELSE range_error("Unsupported range notation")

\* RangeParser._normalize_hand
normalize_hand(h) ==
    LET hand == upper(h)
    IN IF Len(hand) = 2
       THEN IF RANK_VALUES_get(hand[1], 99) > RANK_VALUES_get(hand[2], 99)
            THEN <<hand[2], hand[1]>> ELSE hand
       ELSE IF Len(hand) = 3
       THEN LET suit == lower(<<hand[3]>>)[1]
            IN IF RANK_VALUES_get(hand[1], 99) > RANK_VALUES_get(hand[2], 99)
               THEN <<hand[2], hand[1], suit>> ELSE <<hand[1], hand[2], suit>>
       ELSE hand

\* RangeParser.expand_notation
expand_notation(e) ==
    LET upper_element == upper(e)
    IN IF \E i \in DOMAIN upper_element : upper_element[i] = "-"
       THEN expand_range(upper_element)
       ELSE IF upper_element # <<>> /\ upper_element[Len(upper_element)] = "+"
       THEN expand_plus(SubSeq(upper_element, 1, Len(upper_element) - 1))
       ELSE expanded_ok(<<normalize_hand(upper_element)>>)

(***************************************************************************)
(* Elements given to expand_notation: a hand of one to three characters    *)
(* (ranks written in upper or lower case, an unknown rank X, an optional   *)
(* suit marker), alone, followed by "+", or two or three of them joined    *)
(* by dashes.                                                              *)
(***************************************************************************)
RankChars ==
    {RANKS[i] : i \in 1..(IF MaxRangeRanks < Len(RANKS) THEN MaxRangeRanks ELSE Len(RANKS))}
      \cup {"2", "a", "X"}

SuitMarkers == {"s", "o", "x"}

HandTokens ==
    {<<r>> : r \in RankChars}
      \cup {<<x[1], x[2]>> : x \in RankChars \X RankChars}
      \cup {<<x[1], x[2], x[3]>> : x \in RankChars \X RankChars \X SuitMarkers}

\* the ends of the three-part ranges
FewHandTokens == {<<"A", "A">>, <<"Q", "Q">>, <<"A", "K", "s">>}

Elements ==
    HandTokens
      \cup {Append(h, "+") : h \in HandTokens}
      \cup {x[1] \o <<"-">> \o x[2] : x \in HandTokens \X HandTokens}
      \cup {x[1] \o <<"-">> \o x[2] \o <<"-">> \o x[3] :
              x \in FewHandTokens \X FewHandTokens \X FewHandTokens}

InitRange ==
    /\ element \in Elements
    /\ expansion = None
    /\ hero_cards = <<>>
    /\ board_cards = <<>>
    /\ pot_size = None
    /\ bet_to_call = None
    /\ effective_stack = None
    /\ outs_result = None
    /\ analysis = None
    /\ villain_cards = <<>>
    /\ iterations = 0
    /\ simulation = None
    /\ equity_results = <<>>
    /\ LaterIdle

ExpandNotation ==
    /\ expansion = None
    /\ expansion' = Some(expand_notation(element))
    /\ UNCHANGED <<hero_cards, board_cards, pot_size, bet_to_call, effective_stack,
                   outs_result, analysis, equity_vars, element, later_vars>>

NextRange == ExpandNotation

SpecRange == InitRange /\ [][NextRange]_vars

(***************************************************************************)
(* Claims about RangeParser (checked under SpecRange).                     *)
(***************************************************************************)
\* the element with its letters in upper case, as the grammar reads it
Token == upper(element)

\* a character is one of the 13 ranks
IsRank(c) == \E i \in DOMAIN RANKS : RANKS[i] = c

\* the ranks from the ace (1) down to the deuce (13): the place of a rank
Place(c) == CHOOSE i \in DOMAIN RANKS : RANKS[i] = c

\* the token is a hand followed by "+", with known ranks and, if it has a
\* third character, a suit marker
IsPlusToken ==
    /\ Len(Token) \in {3, 4}
    /\ Token[Len(Token)] = "+"
    /\ \A i \in 1..(Len(Token) - 1) : Token[i] # "-" /\ Token[i] # "+"
    /\ IsRank(Token[1]) /\ IsRank(Token[2])
    /\ Len(Token) = 4 => Token[3] \in {"S", "O"}

\* the suit markers a plus token or a range end stands for
MarkersOf(hand) ==
    IF Len(hand) = 3 THEN {lower(<<hand[3]>>)[1]} ELSE {"s", "o"}

\* the hands a plus token denotes
PlusHands ==
    LET base == SubSeq(Token, 1, Len(Token) - 1)
    IN IF Len(base) = 2 /\ base[1] = base[2]
       THEN {<<r, r>> : r \in {c \in SeqToSet(RANKS) : Place(c) <= Place(base[1])}}
       ELSE {<<base[1], x[1], x[2]>> :
               x \in {c \in SeqToSet(RANKS) :
                        Place(base[1]) < Place(c) /\ Place(c) <= Place(base[2])}
                     \X MarkersOf(base)}

\* the expansion lists exactly the hands of S, each once
ExpandsTo(S) ==
    /\ expansion # None
    /\ expansion[1].status = "ok"
    /\ SeqToSet(expansion[1].hands) = S
    /\ Len(expansion[1].hands) = Cardinality(S)

\* C19: a plus token expands to exactly the pairs of rank >= R (RR+), or to
\* the hands with the same high card X, the same suit type and every kicker
\* from Y up to one rank below X (XYs+, XYo+), in both suit types when the
\* token has no suit marker (XY+).
C19_PlusExpansion ==
    (IsPlusToken /\ expansion # None) => ExpandsTo(PlusHands)

\* C19 witness: ATs+ has expanded to ATs, AJs, AQs, AKs
C19_Witness ==
    /\ element = <<"A", "T", "s", "+">>
    /\ expansion # None
    /\ SeqToSet(expansion[1].hands) =
          {<<"A", "T", "s">>, <<"A", "J", "s">>, <<"A", "Q", "s">>, <<"A", "K", "s">>}

\* a part is a pair RR, or a hand XY of known ranks with or without a suit
\* marker s or o
IsPairEnd(p) == Len(p) = 2 /\ p[1] = p[2] /\ IsRank(p[1])

IsHandEnd(p) ==
    /\ Len(p) \in {2, 3}
    /\ IsRank(p[1]) /\ IsRank(p[2])
    /\ ~IsPairEnd(p)
    /\ Len(p) = 3 => p[3] \in {"S", "O"}

\* the parts are those of a dash range: two or more pairs or hands
IsDashRange(parts) ==
    /\ Len(parts) >= 2
    /\ \A i \in DOMAIN parts : IsPairEnd(parts[i]) \/ IsHandEnd(parts[i])

\* the suit marker of an end, "" when it has none
MarkerOf(p) == IF Len(p) = 3 THEN p[3] ELSE ""

\* the expansion ended with the range-notation error
RangeFails == expansion # None /\ expansion[1].status = "raised"

\* the ranks between two ranks, both included, in either order
RanksBetween(a, b) ==
    {c \in SeqToSet(RANKS) :
        \/ Place(a) <= Place(c) /\ Place(c) <= Place(b)
        \/ Place(b) <= Place(c) /\ Place(c) <= Place(a)}

\* the hands between the two ends of a two-part range
RangeHands(start, end) ==
    IF IsPairEnd(start)
    THEN {<<r, r>> : r \in RanksBetween(start[1], end[1])}
    ELSE {<<start[1], x[1], x[2]>> :
            x \in RanksBetween(start[2], end[2]) \X MarkersOf(start)}

\* the two ends of a range contradict each other: a pair with a non-pair,
\* different high cards, or different suit markers
EndsMismatch(start, end) ==
    \/ IsPairEnd(start) # IsPairEnd(end)
    \/ /\ IsHandEnd(start) /\ IsHandEnd(end)
       /\ \/ start[1] # end[1]
          \/ MarkerOf(start) # MarkerOf(end)

\* an end of the range is a non-pair hand written without a suit marker
HasUnmarkedEnd(parts) ==
    \E i \in DOMAIN parts : IsHandEnd(parts[i]) /\ Len(parts[i]) = 2

\* C20 as stated: a dash range fails when it has more than two parts, when
\* its ends have different high cards or different suit markers or mix a
\* pair with a non-pair; otherwise it expands to every hand between the two
\* bounds, both included.
C20_DashRangeAsStated ==
    expansion # None =>
        LET parts == split_dash(upper(element))
        IN IsDashRange(parts) =>
              IF Len(parts) > 2 \/ EndsMismatch(parts[1], parts[2])
              THEN RangeFails
              ELSE ExpandsTo(RangeHands(parts[1], parts[2]))

\* C20 amended: a dash range fails when it has more than two parts, when an
\* end is a non-pair hand without a suit marker, when its ends mix a pair
\* with a non-pair, or have different high cards or different suit markers;
\* otherwise (two pairs, or two hands XYs / XYo with the same X and the same
\* marker) it expands to every hand between the two bounds, both included,
\* whichever bound is written first.
C20_DashRange ==
    expansion # None =>
        LET parts == split_dash(upper(element))
        IN IsDashRange(parts) =>
              IF \/ Len(parts) > 2
                 \/ EndsMismatch(parts[1], parts[2])
                 \/ HasUnmarkedEnd(parts)
              THEN RangeFails
              ELSE ExpandsTo(RangeHands(parts[1], parts[2]))

\* C20 witness: ATs-AQs has expanded to AQs, AJs, ATs
C20_Witness ==
    /\ element = <<"A", "T", "s", "-", "A", "Q", "s">>
    /\ IsDashRange(split_dash(upper(element)))
    /\ ExpandsTo({<<"A", "Q", "s">>, <<"A", "J", "s">>, <<"A", "T", "s">>})

(***************************************************************************)
(* RangeParser.parse (src/core/range_parser.py lines 14-53) with            *)
(* count_combos and _sort_hands.  The notation is given as the list        *)
(* notation.split(",") stripped of blanks; percentages are in tenths of a  *)
(* percent (round(..., 1)).                                                *)
(***************************************************************************)
\* number of comma-separated elements of a notation
MaxElements == 2

\* count_combos counting an offsuit hand 4 like a suited one
count_combos_offsuit_as_suited(hands) ==
    LET pairs == 6 * Cardinality({i \in DOMAIN hands : Len(hands[i]) = 2})
        suited == 4 * Cardinality({i \in DOMAIN hands : Len(hands[i]) = 3})
    IN [pairs |-> pairs, suited |-> suited, offsuit |-> 0,
        total |-> pairs + suited]

\* lines 206-234: every two-character hand counts 6, a three-character hand
\* 4 when its third character is s and 12 otherwise
count_combos(hands) ==
    LET pairs == 6 * Cardinality({i \in DOMAIN hands : Len(hands[i]) = 2})
        suited == 4 * Cardinality({i \in DOMAIN hands :
                        Len(hands[i]) = 3 /\ lower(<<hands[i][3]>>) = <<"s">>})
        offsuit == 12 * Cardinality({i \in DOMAIN hands :
                        Len(hands[i]) = 3 /\ lower(<<hands[i][3]>>) # <<"s">>})
    IN [pairs |-> pairs, suited |-> suited, offsuit |-> offsuit,
        total |-> pairs + suited + offsuit]

\* lines 239-249: the key _sort_hands sorts by
sort_key(hand) ==
    IF Len(hand) = 2
    THEN <<0, RANK_VALUES_get(hand[1], 99), 0, 0>>
    ELSE IF Len(hand) = 3
    THEN <<1, RANK_VALUES_get(hand[1], 99), RANK_VALUES_get(hand[2], 99),
           IF lower(<<hand[3]>>) = <<"s">> THEN 0 ELSE 1>>
    ELSE <<99, 99, 99, 99>>

\* the order of tuples in Python
tuple_less(a, b) ==
    \E i \in 1..4 : a[i] < b[i] /\ \A j \in 1..(i - 1) : a[j] = b[j]

\* line 251 applied to list(hands) of line 45: sorted is stable, and the
\* order a set of strings is listed in is not fixed by the program (it
\* follows the string hashes), so hands with equal keys come out in any order
RECURSIVE sort_hands(_)
sort_hands(hands) ==
    IF hands = {}
    THEN {<<>>}
    ELSE UNION {{<<h>> \o rest : rest \in sort_hands(hands \ {h})} :
                h \in {m \in hands :
                         \A o \in hands : ~tuple_less(sort_key(o), sort_key(m))}}

\* lines 36-43: the loop over the elements; the first element that raises
\* ends the call
RECURSIVE collect_hands(_, _, _)
collect_hands(elements, i, hands) ==
    IF i > Len(elements)
    THEN [status |-> "ok", hands |-> hands, message |-> ""]
    ELSE IF elements[i] = <<>>
    THEN collect_hands(elements, i + 1, hands)
    ELSE LET expanded == expand_notation(elements[i])
         IN IF expanded.status = "raised"
            THEN expanded
            ELSE collect_hands(elements, i + 1,
                               hands \cup SeqToSet(expanded.hands))

\* lines 28-53: the results parse can return for the elements of a notation
parse(elements) ==
    IF elements = << <<>> >>
    THEN {[status |-> "ok", hands |-> <<>>,
           combos |-> [pairs |-> 0, suited |-> 0, offsuit |-> 0],
           total_combos |-> 0, percentage |-> 0]}
    ELSE LET collected == collect_hands(elements, 1, {})
         IN IF collected.status = "raised"
            THEN {collected}
            ELSE {LET combos == count_combos(hands_list)
                  IN [status |-> "ok", hands |-> hands_list, combos |-> combos,
                      total_combos |-> combos.total,
                      percentage |-> RoundDiv(combos.total * 1000, 1326)] :
                  hands_list \in sort_hands(collected.hands)}

(***************************************************************************)
(* RangeParser.parse as a state machine: a notation is parsed, then a      *)
(* notation denoting the same hands (its elements permuted, one of them    *)
(* repeated, or an element added whose hands are already denoted).         *)
(***************************************************************************)
\* the elements notations are made of: blank, hands (as pairs, with and
\* without a suit marker, in lower case, low rank first, with an unknown
\* rank or marker), plus tokens and dash ranges
ParseElements ==
    {<<>>,
     <<"A", "A">>,
     <<"K", "K">>,
     <<"A", "K">>,
     <<"A", "K", "s">>,
     <<"A", "K", "o">>,
     <<"a", "k", "s">>,
     <<"K", "A", "s">>,
     <<"A", "K", "x">>,
     <<"X", "X">>,
     <<"A", "X", "s">>,
     <<"Q", "Q", "+">>,
     <<"x", "x", "+">>,
     <<"A", "Q", "s", "+">>,
     <<"A", "Q", "+">>,
     <<"K", "K", "-", "Q", "Q">>,
     <<"A", "Q", "s", "-", "A", "K", "s">>,
     <<"A", "X", "s", "-", "A", "K", "s">>,
     <<"K", "K", "-", "Q", "Q", "-", "A", "A">>}

ParseNotations ==
    UNION {[1..n -> ParseElements] : n \in 1..MaxElements}

\* the hands the elements denote (none when an element is rejected)
Denoted(elements) ==
    LET collected == collect_hands(elements, 1, {})
    IN IF collected.status = "ok" THEN collected.hands ELSE {}

Rearrangements(elements) ==
    {p \in [1..Len(elements) -> SeqToSet(elements)] : SeqToSet(p) = SeqToSet(elements)}
    \cup {Append(elements, elements[i]) : i \in DOMAIN elements}
    \cup {Append(elements, e) : e \in {o \in ParseElements :
              /\ collect_hands(<<o>>, 1, {}).status = "ok"
              /\ Denoted(<<o>>) \subseteq Denoted(elements)}}

InitParse ==
    /\ parse_input \in ParseNotations
    /\ parsed = <<>>
    /\ tool_calls = <<>>
    /\ quiz = <<>>
    /\ database = <<>>
    /\ chat = <<>>
    /\ CardsIdle
    /\ CalculatorsIdle

\* parse_range(notation)
ParseRange ==
    /\ parsed = <<>>
    /\ \E result \in parse(parse_input) :
         parsed' = <<[given |-> parse_input, result |-> result]>>
    /\ UNCHANGED <<hero_cards, board_cards, pot_size, bet_to_call, effective_stack,
                   outs_result, analysis, equity_vars, range_vars,
                   parse_input, tool_calls, quiz, database, chat>>

\* parse_range of a notation denoting the same hands
ParseRearranged ==
    /\ Len(parsed) = 1
    /\ \E given \in Rearrangements(parse_input) :
         \E result \in parse(given) :
           parsed' = Append(parsed, [given |-> given, result |-> result])
    /\ UNCHANGED <<hero_cards, board_cards, pot_size, bet_to_call, effective_stack,
                   outs_result, analysis, equity_vars, range_vars,
                   parse_input, tool_calls, quiz, database, chat>>

NextParse == ParseRange \/ ParseRearranged

SpecParse == InitParse /\ [][NextParse]_vars

(***************************************************************************)
(* Claims about RangeParser.parse (checked under SpecParse).               *)
(***************************************************************************)
\* the element is written with a character, in a rank position of one of
\* its dash-separated parts, that is none of the 13 ranks in either case
HasUnknownRank(e) ==
    LET u == upper(e)
        body == IF u # <<>> /\ u[Len(u)] = "+" THEN SubSeq(u, 1, Len(u) - 1) ELSE u
        parts == split_dash(body)
    IN \E i \in DOMAIN parts :
         \E j \in DOMAIN parts[i] : j <= 2 /\ ~IsRank(parts[i][j])

\* the calls of parse that returned a result
ParsedOk == {i \in DOMAIN parsed : parsed[i].result.status = "ok"}

\* a pair of one rank written twice
IsPairHand(h) == Len(h) = 2 /\ IsRank(h[1]) /\ h[1] = h[2]

\* two different ranks, the higher first, and the given suit marker
IsMarkedHand(h, marker) ==
    /\ Len(h) = 3
    /\ IsRank(h[1]) /\ IsRank(h[2])
    /\ Place(h[1]) < Place(h[2])
    /\ h[3] = marker

IsCanonical(h) == IsPairHand(h) \/ IsMarkedHand(h, "s") \/ IsMarkedHand(h, "o")

\* C21: a call whose notation has an element with an unrecognized rank
\* character ends with the range-notation error, and no returned hand holds
\* an unrecognized rank.
C21_UnknownRankRejected ==
    \A i \in DOMAIN parsed :
        /\ (\E k \in DOMAIN parsed[i].given : HasUnknownRank(parsed[i].given[k]))
              => parsed[i].result.status = "raised"
        /\ \A k \in DOMAIN parsed[i].result.hands :
              \A j \in DOMAIN parsed[i].result.hands[k] :
                 j <= 2 => IsRank(parsed[i].result.hands[k][j])

\* C22: every hand of a returned result is a pair RR or a hand XYs / XYo
\* of two different ranks with the higher first.
C22_HandsCanonical ==
    \A i \in ParsedOk :
        \A k \in DOMAIN parsed[i].result.hands : IsCanonical(parsed[i].result.hands[k])

\* C23: two notations denoting the same hands (elements permuted, repeated
\* or overlapping) give the identical result, each hand listed once.
C23_SameHandsSameResult ==
    /\ \A i \in ParsedOk :
          \A k, l \in DOMAIN parsed[i].result.hands :
             parsed[i].result.hands[k] = parsed[i].result.hands[l] => k = l
    /\ \A i, j \in ParsedOk :
          /\ parsed[i].result.hands = parsed[j].result.hands
          /\ parsed[i].result.combos.pairs = parsed[j].result.combos.pairs
          /\ parsed[i].result.combos.suited = parsed[j].result.combos.suited
          /\ parsed[i].result.combos.offsuit = parsed[j].result.combos.offsuit
          /\ parsed[i].result.total_combos = parsed[j].result.total_combos
          /\ parsed[i].result.percentage = parsed[j].result.percentage

\* the number of hands of a returned list that satisfy a condition
HandsCount(hands, Cond(_)) == Cardinality({k \in DOMAIN hands : Cond(hands[k])})

IsSuitedHand(h) == IsMarkedHand(h, "s")

IsOffsuitHand(h) == IsMarkedHand(h, "o")

\* 6 for each pair, 4 for each suited hand, 12 for each offsuit hand
CombosOf(hands) ==
    6 * HandsCount(hands, IsPairHand) + 4 * HandsCount(hands, IsSuitedHand)
    + 12 * HandsCount(hands, IsOffsuitHand)

ToolDeckSize == 6

\* a word Card.new cannot parse ("invalid"), standing in the place of a card
InvalidCard == <<13, 0>>

\* _parse_cards (hand_evaluator.py lines 68-95, spot_analyzer.py lines
\* 150-172): any word that is not a card raises ValueError
parse_cards_raises(cards) == \E i \in DOMAIN cards : cards[i] \notin FullDeck

\* HandEvaluator.evaluate (lines 43-66): every exception becomes ValueError
hand_evaluate(hero, board) ==
    IF parse_cards_raises(hero) \/ board = <<>> \/ parse_cards_raises(board)
    THEN [status |-> "raised", error |-> "ValueError"]
    ELSE IF Len(hero) # 2 \/ Len(board) < 3 \/ Len(board) > 5
    THEN [status |-> "raised", error |-> "ValueError"]
    ELSE IF hand_evaluator_raises(hero, board)
    THEN [status |-> "raised", error |-> "ValueError"]
    ELSE LET rank == evaluate(board, hero)
             category == hand_strength(SeqToSet(board) \cup SeqToSet(hero)) \div (13 ^ 5)
         IN [status |-> "ok", hand_class |-> category, rank |-> rank,
             description |-> <<category, rank>>]

\* EquityCalculator.calculate with at most one iteration, the board cards
\* still to come being drawn: lines 136-199, every exception becomes ValueError
equity_calculate(hero, villain, board, n, drawn) ==
    IF parse_cards_raises(hero) \/ parse_cards_raises(villain) \/ parse_cards_raises(board)
    THEN equity_error("Invalid card")
    ELSE IF equity_validation(hero, villain, board) # ""
    THEN equity_error(equity_validation(hero, villain, board))
    ELSE LET start == [i |-> 0, hero_wins |-> 0, villain_wins |-> 0, ties |-> 0]
         IN IF n = 0 THEN equity_result(start, 0)
            ELSE equity_result(simulate_one(start, hero, villain, board, drawn), n)

\* SpotAnalyzer.analyze on the given words: _parse_cards first (lines 66-67)
spot_analyze(hero, board, pot, bet, stack) ==
    IF parse_cards_raises(hero) \/ parse_cards_raises(board)
    THEN [status |-> "raised", error |-> "ValueError"]
    ELSE analyze(hero, board, pot, bet, stack)

\* the wrappers without their "except Exception" clause
tool_outcome_value_errors_only(result, fields) ==
    IF result.status = "ok"
    THEN [raised |-> "none", returned |-> fields]
    ELSE IF result.error = "ValueError"
    THEN [raised |-> "none", returned |-> [success |-> FALSE, error |-> "ValueError"]]
    ELSE [raised |-> result.error, returned |-> [success |-> FALSE]]

\* the try / except ValueError / except Exception around each wrapper's
\* body (lines 29-41, 71-86, 122-150): the dict of the success, or the
\* error dict for a ValueError and for any other exception
tool_outcome(result, fields) ==
    IF result.status = "ok"
    THEN [raised |-> "none", returned |-> fields]
    ELSE IF result.error = "ValueError"
    THEN [raised |-> "none", returned |-> [success |-> FALSE, error |-> "ValueError"]]
    ELSE [raised |-> "none",
          returned |-> [success |-> FALSE, error |-> "Unexpected error"]]

\* lines 11-41
evaluate_hand(hero, board) ==
    LET result == hand_evaluate(hero, board)
    IN tool_outcome(result,
           [success |-> TRUE, hand_class |-> result.hand_class,
            rank |-> result.rank, description |-> result.description])

\* lines 44-86
calculate_equity(hero, villain, board, n, drawn) ==
    LET result == equity_calculate(hero, villain, board, n, drawn)
    IN tool_outcome(result,
           [success |-> TRUE, hero_equity |-> result.hero_equity,
            villain_equity |-> result.villain_equity,
            hero_wins |-> result.hero_wins, villain_wins |-> result.villain_wins,
            ties |-> result.ties, iterations |-> result.iterations])

\* lines 89-150
analyze_spot(hero, board, pot, bet, stack) ==
    LET result == spot_analyze(hero, board, pot, bet, stack)
        hand_eval == hand_evaluate(hero, board)
    IN tool_outcome(result,
           [success |-> TRUE,
            hand_strength |-> [class |-> hand_eval.hand_class, rank |-> hand_eval.rank,
                               description |-> hand_eval.description],
            equity |-> result.equity, equity_method |-> result.equity_method,
            out_count |-> result.out_count, outs |-> result.outs,
            pot_odds |-> result.pot_odds, implied_odds |-> result.implied_odds,
            spr |-> result.spr,
            spr_category |-> IF result.spr = None THEN None
                             ELSE Some(result.spr[1].category),
            ev |-> result.ev, recommendation |-> result.recommendation])

(***************************************************************************)
(* The tools as a state machine: one call of one of the three wrappers on  *)
(* the hand and board given (dealt cards, or a hand that is not cards, a   *)
(* one-card hand, a two-card board).                                       *)
(***************************************************************************)
\* the villain hands given to calculate_equity: two undealt cards, or the
\* two cards of the hero
ToolVillains == {<<DeckOrder[12], DeckOrder[13]>>, hero_cards}

InitTools ==
    /\ \/ DealtFrom(ToolDeckSize)
       \/ /\ hero_cards \in {<<InvalidCard>>, <<DeckOrder[1]>>}
          /\ board_cards = <<DeckOrder[2], DeckOrder[3], DeckOrder[4]>>
       \/ /\ hero_cards = <<DeckOrder[1], DeckOrder[2]>>
          /\ board_cards \in {<<>>, <<DeckOrder[3], DeckOrder[4]>>}
    /\ pot_size = None
    /\ bet_to_call = None
    /\ effective_stack = None
    /\ outs_result = None
    /\ analysis = None
    /\ CalculatorsIdle
    /\ parse_input = <<>>
    /\ parsed = <<>>
    /\ tool_calls = <<>>
    /\ quiz = <<>>
    /\ database = <<>>
    /\ chat = <<>>

EvaluateHandTool ==
    /\ tool_calls = <<>>
    /\ tool_calls' = <<[tool |-> "evaluate_hand",
                        outcome |-> evaluate_hand(hero_cards, board_cards)]>>
    /\ UNCHANGED <<hero_cards, board_cards, pot_size, bet_to_call, effective_stack,
                   outs_result, analysis, equity_vars, range_vars,
                   parse_input, parsed, quiz, database, chat>>

CalculateEquityTool ==
    /\ tool_calls = <<>>
    /\ \E villain \in ToolVillains, n \in 0..1 :
         \E drawn \in Draws(SeqToSet(hero_cards \o villain \o board_cards),
                            IF Len(board_cards) <= 5 THEN 5 - Len(board_cards) ELSE 0) :
           /\ villain_cards' = villain
           /\ iterations' = n
           /\ tool_calls' = <<[tool |-> "calculate_equity",
                               outcome |-> calculate_equity(hero_cards, villain,
                                                            board_cards, n, drawn)]>>
    /\ UNCHANGED <<hero_cards, board_cards, pot_size, bet_to_call, effective_stack,
                   outs_result, analysis, simulation, equity_results, range_vars,
                   parse_input, parsed, quiz, database, chat>>

AnalyzeSpotTool ==
    /\ tool_calls = <<>>
    /\ \E pot \in Amounts, bet \in Amounts, stack \in Amounts :
         /\ pot_size' = pot
         /\ bet_to_call' = bet
         /\ effective_stack' = stack
         /\ tool_calls' = <<[tool |-> "analyze_spot",
                             outcome |-> analyze_spot(hero_cards, board_cards,
                                                      pot, bet, stack)]>>
    /\ UNCHANGED <<hero_cards, board_cards, outs_result, analysis, equity_vars,
                   range_vars, parse_input, parsed, quiz, database, chat>>

NextTools == EvaluateHandTool \/ CalculateEquityTool \/ AnalyzeSpotTool

SpecTools == InitTools /\ [][NextTools]_vars

\* the keys of the dict each wrapper returns on success
SuccessKeys(tool) ==
    CASE tool = "evaluate_hand" -> {"success", "hand_class", "rank", "description"}
      [] tool = "calculate_equity" ->
            {"success", "hero_equity", "villain_equity", "hero_wins",
             "villain_wins", "ties", "iterations"}
      [] OTHER ->
            {"success", "hand_strength", "equity", "equity_method", "out_count",
             "outs", "pot_odds", "implied_odds", "spr", "spr_category", "ev",
             "recommendation"}

\* C25: no call of a wrapper ends with an exception; it returns success
\* with all the result fields, or no success with an error message and
\* nothing else.
C25_ToolsNeverRaise ==
    \A i \in DOMAIN tool_calls :
        /\ tool_calls[i].outcome.raised = "none"
        /\ \/ /\ tool_calls[i].outcome.returned.success
              /\ DOMAIN tool_calls[i].outcome.returned = SuccessKeys(tool_calls[i].tool)
           \/ /\ ~tool_calls[i].outcome.returned.success
              /\ DOMAIN tool_calls[i].outcome.returned = {"success", "error"}

\* analyze_spot caught an exception that is no ValueError
C25_Witness ==
    \E i \in DOMAIN tool_calls :
        /\ tool_calls[i].tool = "analyze_spot"
        /\ tool_calls[i].outcome.raised = "none"
        /\ ~tool_calls[i].outcome.returned.success
        /\ tool_calls[i].outcome.returned.error = "Unexpected error"

(***************************************************************************)
(* QuizEngine (src/src/quiz/engine.py): the questions of the session, the  *)
(* index of the current one and the recorded answers.                      *)
(***************************************************************************)
\* number of questions in the bank
MaxQuestions == 2
\* number of answers submitted in a session
MaxAnswers == 3

\* the validated questions of the bank (_load_bank, lines 43-53)
all_questions ==
    [i \in 1..MaxQuestions |->
        [id |-> i, topic |-> IF i % 2 = 1 THEN "preflop" ELSE "postflop", answer |-> "a"]]

\* questions.filter_questions (lines 241-265) by topic
filter_questions(questions, topic) ==
    IF topic # None /\ topic[1] # "all"
    THEN SelectSeq(questions, LAMBDA q : q.topic = topic[1])
    ELSE questions

\* random.shuffle: any order of the list
Shuffles(s) ==
    {[i \in 1..Len(s) |-> s[p[i]]] :
        p \in {f \in [1..Len(s) -> 1..Len(s)] : \A i, j \in 1..Len(s) : f[i] = f[j] => i = j}}

\* questions.check_answer (lines 110-122)
check_answer(question, user_answer) ==
    lower(<<user_answer>>) = lower(<<question.answer>>)

\* lines 97-106: the current question, None when there is none
get_current_question(q) ==
    IF q.questions = <<>> \/ q.current_idx >= Len(q.questions)
    THEN None
    ELSE Some(q.questions[q.current_idx + 1])

\* lines 210-217
is_complete(q) ==
    Len(q.answers) >= Len(q.questions) /\ Len(q.questions) > 0

QuizTopics == {None, Some("all"), Some("preflop"), Some("postflop")}

InitQuiz ==
    /\ quiz = [questions |-> <<>>, current_idx |-> 0, answers |-> <<>>]
    /\ CardsIdle
    /\ CalculatorsIdle
    /\ parse_input = <<>>
    /\ parsed = <<>>
    /\ tool_calls = <<>>
    /\ database = <<>>
    /\ chat = <<>>

\* lines 55-95
LoadQuestions ==
    /\ \E topic \in QuizTopics, limit \in 0..MaxQuestions, shuffle \in BOOLEAN :
         LET filtered == filter_questions(all_questions, topic)
         IN \E ordered \in (IF shuffle THEN Shuffles(filtered) ELSE {filtered}) :
              quiz' = [questions |-> SubSeq(ordered, 1, Min({limit, Len(ordered)})),
                       current_idx |-> 0, answers |-> <<>>]
    /\ UNCHANGED <<hero_cards, board_cards, pot_size, bet_to_call, effective_stack,
                   outs_result, analysis, equity_vars, range_vars,
                   parse_input, parsed, tool_calls, database, chat>>

\* lines 108-159: without a current question nothing is recorded
SubmitAnswer ==
    /\ Len(quiz.answers) < MaxAnswers
    /\ \E answer \in {"A", "b"} :
         LET question == get_current_question(quiz)
         IN IF question = None
            THEN UNCHANGED quiz
            ELSE quiz' = [quiz EXCEPT !.answers =
                             Append(@, [question_id |-> question[1].id,
                                        user_answer |-> answer,
                                        is_correct |-> check_answer(question[1], answer)])]
    /\ UNCHANGED <<hero_cards, board_cards, pot_size, bet_to_call, effective_stack,
                   outs_result, analysis, equity_vars, range_vars,
                   parse_input, parsed, tool_calls, database, chat>>

\* lines 161-170
NextQuestion ==
    /\ quiz.current_idx <= MaxQuestions
    /\ quiz' = [quiz EXCEPT !.current_idx = @ + 1]
    /\ UNCHANGED <<hero_cards, board_cards, pot_size, bet_to_call, effective_stack,
                   outs_result, analysis, equity_vars, range_vars,
                   parse_input, parsed, tool_calls, database, chat>>

NextQuiz == LoadQuestions \/ SubmitAnswer \/ NextQuestion

SpecQuiz == InitQuiz /\ [][NextQuiz]_vars

\* C26: is_complete is true only when at least one question is loaded and
\* every loaded question has a recorded answer.
C26_CompleteMeansAllAnswered ==
    is_complete(quiz) =>
        /\ Len(quiz.questions) > 0
        /\ \A i \in DOMAIN quiz.questions :
              \E k \in DOMAIN quiz.answers :
                 quiz.answers[k].question_id = quiz.questions[i].id

(***************************************************************************)
(* The database service (src/src/database/service.py): the poker_sessions  *)
(* and hand_histories tables, each a function from the ids of its rows to  *)
(* the rows, and the last call with what it returned.                      *)
(***************************************************************************)
\* number of rows the two tables hold together
MaxRecords == 2

UserIds == {1, 2}

\* the updates given to update_poker_session: a dict of fields, user_id
\* among them, which is no allowed field
SessionUpdates ==
    {[cash_out |-> 1], [buy_in |-> 0, cash_out |-> 1], [user_id |-> 2, cash_out |-> 1]}

\* the updates given to update_hand_history
HandUpdates == {[result |-> "lost"], [user_id |-> 2, result |-> "lost"]}

\* the primary key of a new row: one more than the highest in the table
next_id(table) == IF DOMAIN table = {} THEN 1 ELSE Max(DOMAIN table) + 1

\* the query of every delete and update with any owner accepted
find_row_of_any_user(table, id, user_id) ==
    IF id \in DOMAIN table THEN Some(table[id]) ELSE None

\* db.query(...).filter(id == id, user_id == user_id).first() (lines 626-634,
\* 663-671, 889-897, 940-948): the row, None when no row matches
find_row(table, id, user_id) ==
    IF id \in DOMAIN table /\ table[id].user_id = user_id
    THEN Some(table[id]) ELSE None

\* the table without a row
without_row(table, id) == [k \in DOMAIN table \ {id} |-> table[k]]

\* the table with a row added or replaced
with_row(table, id, row) ==
    [k \in DOMAIN table \cup {id} |-> IF k = id THEN row ELSE table[k]]

\* lines 676-699: the allowed fields are set, profit_loss is recomputed
\* when buy_in or cash_out is among the updates
updated_session(row, updates) ==
    LET buy_in == IF "buy_in" \in DOMAIN updates THEN updates.buy_in ELSE row.buy_in
        cash_out == IF "cash_out" \in DOMAIN updates THEN updates.cash_out ELSE row.cash_out
    IN [user_id |-> row.user_id, buy_in |-> buy_in, cash_out |-> cash_out,
        profit_loss |-> IF {"buy_in", "cash_out"} \cap DOMAIN updates # {}
                        THEN cash_out - buy_in ELSE row.profit_loss]

\* lines 902-921
updated_hand(row, updates) ==
    [user_id |-> row.user_id,
     result |-> IF "result" \in DOMAIN updates THEN updates.result ELSE row.result]

DatabaseRows ==
    Cardinality(DOMAIN database.poker_sessions)
    + Cardinality(DOMAIN database.hand_histories)

InitDatabase ==
    /\ database = [poker_sessions |-> <<>>, hand_histories |-> <<>>,
                   last_call |-> [op |-> "none", id |-> 0, user_id |-> 0,
                                  returned |-> FALSE]]
    /\ CardsIdle
    /\ CalculatorsIdle
    /\ parse_input = <<>>
    /\ parsed = <<>>
    /\ tool_calls = <<>>
    /\ quiz = <<>>
    /\ chat = <<>>

\* every action of the service leaves the rest of the program alone
DatabaseOnly ==
    UNCHANGED <<hero_cards, board_cards, pot_size, bet_to_call, effective_stack,
                outs_result, analysis, equity_vars, range_vars,
                parse_input, parsed, tool_calls, quiz, chat>>

\* save_poker_session (lines 303-347)
SavePokerSession ==
    /\ DatabaseRows < MaxRecords
    /\ next_id(database.poker_sessions) <= MaxRecords
    /\ \E user_id \in UserIds :
         LET id == next_id(database.poker_sessions)
         IN database' = [database EXCEPT
               !.poker_sessions = with_row(@, id, [user_id |-> user_id, buy_in |-> 1,
                                                   cash_out |-> 0, profit_loss |-> -1]),
               !.last_call = [op |-> "save_poker_session", id |-> id,
                              user_id |-> user_id, returned |-> TRUE]]
    /\ DatabaseOnly

\* save_hand_history (lines 711-748)
SaveHandHistory ==
    /\ DatabaseRows < MaxRecords
    /\ next_id(database.hand_histories) <= MaxRecords
    /\ \E user_id \in UserIds :
         LET id == next_id(database.hand_histories)
         IN database' = [database EXCEPT
               !.hand_histories = with_row(@, id, [user_id |-> user_id, result |-> "won"]),
               !.last_call = [op |-> "save_hand_history", id |-> id,
                              user_id |-> user_id, returned |-> TRUE]]
    /\ DatabaseOnly

\* delete_poker_session (lines 614-643)
DeletePokerSession ==
    /\ \E id \in 1..MaxRecords, user_id \in UserIds :
         LET session == find_row(database.poker_sessions, id, user_id)
         IN database' = [database EXCEPT
               !.poker_sessions = IF session = None THEN @ ELSE without_row(@, id),
               !.last_call = [op |-> "delete_poker_session", id |-> id,
                              user_id |-> user_id, returned |-> session # None]]
    /\ DatabaseOnly

\* update_poker_session (lines 646-703)
UpdatePokerSession ==
    /\ \E id \in 1..MaxRecords, user_id \in UserIds, updates \in SessionUpdates :
         LET session == find_row(database.poker_sessions, id, user_id)
         IN database' = [database EXCEPT
               !.poker_sessions = IF session = None THEN @
                                  ELSE with_row(@, id, updated_session(session[1], updates)),
               !.last_call = [op |-> "update_poker_session", id |-> id,
                              user_id |-> user_id, returned |-> session # None]]
    /\ DatabaseOnly

\* delete_hand_history (lines 928-957)
DeleteHandHistory ==
    /\ \E id \in 1..MaxRecords, user_id \in UserIds :
         LET hand == find_row(database.hand_histories, id, user_id)
         IN database' = [database EXCEPT
               !.hand_histories = IF hand = None THEN @ ELSE without_row(@, id),
               !.last_call = [op |-> "delete_hand_history", id |-> id,
                              user_id |-> user_id, returned |-> hand # None]]
    /\ DatabaseOnly

\* update_hand_history (lines 872-925)
UpdateHandHistory ==
    /\ \E id \in 1..MaxRecords, user_id \in UserIds, updates \in HandUpdates :
         LET hand == find_row(database.hand_histories, id, user_id)
         IN database' = [database EXCEPT
               !.hand_histories = IF hand = None THEN @
                                  ELSE with_row(@, id, updated_hand(hand[1], updates)),
               !.last_call = [op |-> "update_hand_history", id |-> id,
                              user_id |-> user_id, returned |-> hand # None]]
    /\ DatabaseOnly

NextDatabase ==
    \/ SavePokerSession \/ SaveHandHistory
    \/ DeletePokerSession \/ UpdatePokerSession
    \/ DeleteHandHistory \/ UpdateHandHistory

SpecDatabase == InitDatabase /\ [][NextDatabase]_vars

\* a call among ops was just made on a row of the table with a user_id that
\* is not the row's owner; it returned False, and the row is unchanged and
\* found again by its owner
WrongUserRefused(before, after, call, ops) ==
    (call.op \in ops /\ call.id \in DOMAIN before
        /\ before[call.id].user_id # call.user_id)
    => /\ call.returned = FALSE
       /\ call.id \in DOMAIN after
       /\ after[call.id] = before[call.id]
       /\ find_row(after, call.id, before[call.id].user_id) = Some(before[call.id])

\* C27: deleting or updating a poker session or a hand history with a
\* user_id other than its owner's returns False and leaves the row as it
\* was, retrievable by its owner.
C27_WrongUserChangesNothing ==
    [][/\ WrongUserRefused(database.poker_sessions, database'.poker_sessions,
                           database'.last_call,
                           {"delete_poker_session", "update_poker_session"})
       /\ WrongUserRefused(database.hand_histories, database'.hand_histories,
                           database'.last_call,
                           {"delete_hand_history", "update_hand_history"})]_vars

\* a delete or update was refused on a stored row of another user
C27_Witness ==
    \/ /\ database.last_call.op \in {"delete_poker_session", "update_poker_session"}
       /\ ~database.last_call.returned
       /\ database.last_call.id \in DOMAIN database.poker_sessions
       /\ database.poker_sessions[database.last_call.id].user_id
             # database.last_call.user_id
    \/ /\ database.last_call.op \in {"delete_hand_history", "update_hand_history"}
       /\ ~database.last_call.returned
       /\ database.last_call.id \in DOMAIN database.hand_histories
       /\ database.hand_histories[database.last_call.id].user_id
             # database.last_call.user_id

(***************************************************************************)
(* Claims about the recommendation and the reported EV (checked under      *)
(* SpecSpot).                                                              *)
(***************************************************************************)
\* C28: an analysis that recommends FOLD (confidence high, 'Negative EV'
\* reasoning) reports an ev.call that is not positive.
C28_FoldHasNoPositiveEv ==
    (/\ Analyzed
     /\ analysis[1].recommendation.action = "FOLD") =>
        /\ analysis[1].ev # None
        /\ analysis[1].ev[1].call <= 0

(***************************************************************************)
(* Claim about the missing ranks of a straight draw (checked under         *)
(* SpecOuts).                                                              *)
(***************************************************************************)
\* C29: every rank in straight_draw.missing_ranks is a rank from 2 to 14
\* that no dealt card has, and the treys rank computed from it is one of
\* the 13 treys ranks 0..12.
C29_MissingRanksAreRealRanks ==
    outs_result # None =>
        \A i \in DOMAIN outs_result[1].breakdown.straight_draw.missing_ranks :
            LET r == outs_result[1].breakdown.straight_draw.missing_ranks[i]
            IN /\ r \in 2..14
               /\ r \notin DealtPokerRanks
               /\ treys_rank(r) \in 0..12

(***************************************************************************)
(* The chat screen and its coach (src/src/tui/screens/mode6_chat.py,       *)
(* src/src/agent/coach.py).  An exchange is one message sent with the      *)
(* reply to it; exchanges are numbered in the order they are started.      *)
(* chat.cleared_before is the number of the first exchange not yet started *)
(* when Clear Chat was last pressed.                                       *)
(***************************************************************************)
\* number of messages the user sends
MaxExchanges == 3

\* PokerCoachAgent.__init__ (lines 60-64) and the mounted screen (on_mount,
\* lines 180-195): the agent is ready or has no API key
InitChat ==
    /\ \E ready \in BOOLEAN :
         chat = [ready |-> ready,
                 chat_history |-> <<>>,
                 screen |-> <<[role |-> IF ready THEN "assistant" ELSE "error",
                               exchange |-> 0]>>,
                 loading |-> FALSE,
                 worker |-> None,
                 next_exchange |-> 1,
                 cleared_before |-> 1]
    /\ CardsIdle
    /\ CalculatorsIdle
    /\ parse_input = <<>>
    /\ parsed = <<>>
    /\ tool_calls = <<>>
    /\ quiz = <<>>
    /\ database = <<>>

\* every action of the chat leaves the rest of the program alone
ChatOnly ==
    UNCHANGED <<hero_cards, board_cards, pot_size, bet_to_call, effective_stack,
                outs_result, analysis, equity_vars, range_vars,
                parse_input, parsed, tool_calls, quiz, database>>

\* Mode6ChatScreen._send_message (lines 232-258) up to the await of
\* PokerCoachAgent.chat (lines 135-146); the input is disabled while loading
SendMessage ==
    /\ ~chat.loading
    /\ chat.next_exchange <= MaxExchanges
    /\ IF ~chat.ready
       THEN chat' = [chat EXCEPT
                !.screen = Append(@, [role |-> "error", exchange |-> chat.next_exchange]),
                !.next_exchange = @ + 1]
       ELSE chat' = [chat EXCEPT
                !.screen = Append(@, [role |-> "user", exchange |-> chat.next_exchange]),
                !.loading = TRUE,
                !.worker = Some([exchange |-> chat.next_exchange, state |-> "running",
                                 error |-> FALSE]),
                !.next_exchange = @ + 1]
    /\ ChatOnly

\* PokerCoachAgent.chat after the await (lines 146-194): the exchange is
\* appended to chat_history and the response returned
AgentReplies ==
    /\ chat.worker # None
    /\ chat.worker[1].state = "running"
    /\ chat' = [chat EXCEPT
           !.chat_history = @ \o <<[role |-> "human", exchange |-> chat.worker[1].exchange],
                                   [role |-> "ai", exchange |-> chat.worker[1].exchange]>>,
           !.worker = Some([chat.worker[1] EXCEPT !.state = "success"])]
    /\ ChatOnly

\* the agent raises: chat returns an error response (lines 196-201)
AgentFails ==
    /\ chat.worker # None
    /\ chat.worker[1].state = "running"
    /\ chat' = [chat EXCEPT
           !.worker = Some([chat.worker[1] EXCEPT !.state = "success", !.error = TRUE])]
    /\ ChatOnly

\* on_worker_state_changed for SUCCESS (lines 264-287)
WorkerSucceeded ==
    /\ chat.worker # None
    /\ chat.worker[1].state = "success"
    /\ chat' = [chat EXCEPT
           !.loading = FALSE,
           !.screen = Append(@, [role |-> IF chat.worker[1].error THEN "error"
                                          ELSE "assistant",
                                 exchange |-> chat.worker[1].exchange]),
           !.worker = None]
    /\ ChatOnly

\* action_clear_chat (lines 323-338) with clear_history (coach.py lines
\* 227-229); the Clear Chat button is never disabled
ClearChat ==
    /\ chat' = [chat EXCEPT
           !.chat_history = <<>>,
           !.screen = <<[role |-> "assistant", exchange |-> 0]>>,
           !.cleared_before = chat.next_exchange]
    /\ ChatOnly

NextChat == SendMessage \/ AgentReplies \/ AgentFails \/ WorkerSucceeded \/ ClearChat

SpecChat == InitChat /\ [][NextChat]_vars

\* C30: chat_history holds no message of an exchange started before the
\* chat was last cleared.
C30_ClearedHistoryStaysClear ==
    \A i \in DOMAIN chat.chat_history :
        chat.chat_history[i].exchange >= chat.cleared_before

====
